---- MODULE Spec2Model ----
(***************************************************************************)
(* Stripe webhook receiver: signature verification, the in-memory         *)
(* idempotency ledger (processedEvents), the event log (stripeEvents /    *)
(* eventLog) and the dispatch of verified events to the downstream sink.  *)
(*                                                                         *)
(* The repository holds several revisions of the same server.  Three of   *)
(* them carry the ledger and are modelled here, one per value of          *)
(* `variant`:                                                              *)
(*   "part_006"          src/unnamed/part_006  app.post('/api/webhook')   *)
(*   "part_009_v2"       src/unnamed/part_009  app.post('/api/webhook')   *)
(*                       (lines 566-644, "version 2.0")                   *)
(*   "part_009_webhook"  src/unnamed/part_009  app.post('/webhook')       *)
(*                       (lines 773-833, with eventLog)                   *)
(*                                                                         *)
(* Node.js runs one callback at a time: a handler runs from its start, or *)
(* from the resumption of an await, to its next await or to its end       *)
(* without any other callback running in between.  `running` holds the    *)
(* request whose callback is executing; a request whose handler is        *)
(* suspended in `await` has pc "await" and does not hold `running`.       *)
(***************************************************************************)
EXTENDS Integers, Naturals, Sequences, FiniteSets, TLC

\* ------------------------------------------------------------------ bounds
MaxReqs == 3        \* number of inbound requests over the whole run
MaxIds  == 3        \* number of distinct event identifiers / bodies
MaxCalls == 2       \* number of storeSubscription calls over the whole run
MaxClock == 2       \* last instant of the wall clock
MaxBuilds == 2      \* number of runs of the record builder
MaxChunk == 2       \* largest number of bytes one 'data' event delivers
MaxStreams == 2     \* number of requests whose body is read chunk by chunk

Reqs == 1..MaxReqs
Ids  == 1..MaxIds
Calls == 1..MaxCalls

NoReq   == 0        \* `running` when the event loop is idle
NoEvent == 0        \* `let event;` before constructEvent has assigned it
NoSig   == 0        \* req.headers['stripe-signature'] undefined
EmptyBody == 0      \* a request body of zero bytes
NoRecord == 0       \* the handler holds no reference to a log record
NoReport == [status |-> "none"]    \* GET /api/webhook has not been answered yet

\* storeSubscription has not been called: no loop index, no controller, no
\* timer, no attempt made.
NoCall == [pc |-> "idle", i |-> 0, aborted |-> FALSE, timeoutId |-> FALSE,
           attempts |-> <<>>, result |-> "none"]

\* ------------------------------------------------------------ body bytes
\* A body on the wire is a sequence of bytes, written as tokens: the braces,
\* the event's content, blanks between the tokens, and "xFF" for a byte
\* that is not valid UTF-8.  The same event can travel in several formats.
BodyFormats == {"compact", "pretty", "binary"}

WireBytes(body, format) ==
    IF body = EmptyBody THEN <<>>
    ELSE CASE format = "compact" -> <<"{", ToString(body), "}">>
           [] format = "pretty"  -> <<"{", " ", ToString(body), " ", "}">>
           [] format = "binary"  -> <<"{", ToString(body), "xFF", "}">>

Unset == <<"unset">>            \* constructEvent has not been called
NoStream == [data |-> <<>>, state |-> "none"]

\* Decoding bytes as UTF-8 (req.setEncoding('utf8'), the body parser): an
\* invalid byte becomes the replacement character U+FFFD.
DecodeUtf8(bytes) ==
    [i \in DOMAIN bytes |-> IF bytes[i] = "xFF" THEN "uFFFD" ELSE bytes[i]]

\* Encoding a string as UTF-8 (Buffer.from(data, 'utf8'), constructEvent on a
\* string): U+FFFD becomes its three bytes EF BF BD.
EncodeUtf8(text) ==
    [i \in DOMAIN text |-> IF text[i] = "uFFFD" THEN "EFBFBD" ELSE text[i]]

\* JSON.parse: the value a text denotes; blanks between tokens are dropped.
JsonParse(text) == [tokens |-> SelectSeq(text, LAMBDA c : c # " ")]

\* JSON.stringify(value): the value's tokens with nothing between them.
JsonStringify(value) == value.tokens

\* The event a verified body denotes (event.id of the parsed body).
EventOfBytes(bytes) ==
    IF \E b \in Ids, i \in DOMAIN bytes : bytes[i] = ToString(b)
      THEN CHOOSE b \in Ids : \E i \in DOMAIN bytes : bytes[i] = ToString(b)
      ELSE NoEvent

\* ------------------------------------------------------ checkout payloads
\* A checkout session as the builder reads it.  Strings that the builder
\* only copies are opaque tokens; client_reference_id, which it lower-cases
\* and searches, is a sequence of words (<<>>: null or the empty string).
Null == "<null>"

LineItemChoices ==
    {<<>>,
     <<[price |-> [id |-> "price_A", product |-> "prod_A"]]>>,
     <<[price |-> [id |-> "price_B", product |-> "prod_B"]],
       [price |-> [id |-> "price_A", product |-> "prod_A"]]>>}

DiscountChoices ==
    {<<>>, <<"PHENOM100">>, <<"WELCOME10", "PHENOM100">>, <<"phenom100">>}

ReferenceChoices ==
    {<<>>, <<"email", "SOCIAL">>, <<"sms", "email">>, <<"Phenom_Landing">>,
     <<"partner">>}

Sessions ==
    [id : {"cs_1"}, customer : {"cus_1"}, subscription : {"sub_1"},
     line_items : LineItemChoices,
     discounts : DiscountChoices,
     metadata : [source_channel : {"", "partner"}, utm_source : {"", "google"},
                 utm_medium : {""}, utm_campaign : {""},
                 utm_term : {""}, utm_content : {""}],
     client_reference_id : ReferenceChoices,
     amount_total : {0, 2000},
     currency : {"usd"},
     payment_status : {"paid"}]

\* No checkout session has been received.
NoSession ==
    [id |-> Null, customer |-> Null, subscription |-> Null,
     line_items |-> <<>>, discounts |-> <<>>,
     metadata |-> [source_channel |-> "", utm_source |-> "",
                   utm_medium |-> "", utm_campaign |-> "",
                   utm_term |-> "", utm_content |-> ""],
     client_reference_id |-> <<>>, amount_total |-> 0, currency |-> Null,
     payment_status |-> Null]

Bodies == Ids \cup {EmptyBody}

Variants == {"part_006", "part_009_v2", "part_009_webhook"}

VARIABLES
    variant,          \* which revision of the server is deployed
    running,          \* request whose callback currently executes (or NoReq)
    req,              \* req[r]: the inbound request (body bytes, signature header)
    pc,               \* pc[r]: position of request r's handler
    event,            \* event[r]: the handler's local `event` (NoEvent until verified)
    processedEvents,  \* the ledger: Set of claimed event ids
    stripeEvents,     \* the event log: array of records, in push order
    responses,        \* HTTP responses sent so far, in send order
    eventRecord,      \* eventRecord[r]: index in the log of the handler's `eventRecord`
    handlerCalls,     \* handlerCalls[id]: handler invocations made for event id
    sinkCalls,        \* sinkCalls[id]: sink requests (fetch / axios.post) issued
    sinkDelivered,    \* sinkDelivered[id]: sink requests that returned success
    statusReport,     \* body of the last answer of GET /api/webhook (or NoReport)
    storeCalls,       \* storeCalls[c]: one call of part_009's storeSubscription
    session,          \* the checkout session payload (event.data.object)
    now,              \* the wall clock read by new Date()
    built,            \* the records built so far, with payload and time of each build
    wire,             \* wire[r]: the bytes of request r's body as the client sent them
    stream,           \* stream[r]: part_003's reading of the body (`data`, stream state)
    verifierInput,    \* verifierInput[r]: the bytes handed to constructEvent (or Unset)
    table,            \* table[X]: number of records of the sink table with SessionId X
    tries             \* tries[r]: invocations of table.create made by p-retry for r

\* State outside the webhook handlers: no handler statement assigns it.
captureVars == <<wire, stream, verifierInput>>
tableVars == <<table, tries>>

auxVars == <<statusReport, storeCalls, session, now, built,
             wire, stream, verifierInput, table, tries>>

\* The state the webhook handlers assign.
handlerVars == <<variant, running, req, pc, event, processedEvents, stripeEvents,
                 responses, eventRecord, handlerCalls, sinkCalls, sinkDelivered>>

vars == <<variant, running, req, pc, event, processedEvents, stripeEvents,
          responses, eventRecord, handlerCalls, sinkCalls, sinkDelivered,
          statusReport, storeCalls, session, now, built,
          wire, stream, verifierInput, table, tries>>

\* ------------------------------------------------- signature and parsing
\* The provider's keyed signature of a body.  The HMAC is abstracted as an
\* injective function of the body bytes: distinct bodies never share a
\* signature, and no signature equals the absent header.
ExpectedSignature(body) == body + 1

\* The header kinds a sender can attach to a body: none at all, the correct
\* signature of this body, or the signature of a different body (the body
\* was tampered with after signing).
SignatureHeader(body, kind) ==
    CASE kind = "missing"  -> NoSig
      [] kind = "valid"    -> ExpectedSignature(body)
      [] kind = "tampered" -> ExpectedSignature((body + 1) % (MaxIds + 1))

HeaderKinds == {"missing", "valid", "tampered"}

\* stripe.webhooks.constructEvent(body, sig, secret): throws when the header
\* is absent, when it is not the signature of exactly these bytes, or when
\* the bytes do not parse as an event.
SignatureValid(body, sig) ==
    /\ sig # NoSig
    /\ sig = ExpectedSignature(body)
    /\ body # EmptyBody

\* event.type of the event parsed from a body; the provider assigns one type
\* to each identifier.
EventType(id) ==
    CASE id % 3 = 1 -> "checkout.session.completed"
      [] id % 3 = 2 -> "customer.subscription.created"
      [] OTHER      -> "payment_intent.succeeded"

\* JSON.parse of the verified bytes: the event carried by a body.
ParseEvent(body) == body

\* ------------------------------------------------------------ responses
\* res.json(body) answers 200 unless res.status(n) was called first.
JsonResponse(r, code, fields) == [req |-> r, status |-> code, body |-> fields]

\* res.status(n).send(text)
TextResponse(r, code, text) == [req |-> r, status |-> code, body |-> [text |-> text]]

\* Sending the response ends the handler's callback.
Respond(r, resp) ==
    /\ responses' = Append(responses, resp)
    /\ pc' = [pc EXCEPT ![r] = "done"]
    /\ running' = NoReq

\* The synchronous code moves on to its next statement; the callback keeps
\* the event loop.
Goto(r, label) ==
    /\ pc' = [pc EXCEPT ![r] = label]
    /\ UNCHANGED running

\* Faulty variant: the pending call blocks the event loop (a synchronous
\* request instead of an awaited one).
Suspend_Blocking(r) ==
    /\ pc' = [pc EXCEPT ![r] = "await"]
    /\ UNCHANGED running

\* The handler reaches an `await` on a pending promise: it is suspended and
\* the event loop is free for other callbacks.
Suspend(r) ==
    /\ pc' = [pc EXCEPT ![r] = "await"]
    /\ running' = NoReq

\* ---------------------------------------------------------------- ledger
\* Faulty variants of the ledger operations (used to validate the claims).
claim_Forgotten(id) == processedEvents        \* the add is missing
release_Noop(id)    == processedEvents        \* the delete is missing

isClaimed(id) == id \in processedEvents           \* processedEvents.has(id)
claim(id)     == processedEvents \cup {id}              \* processedEvents.add(id)
release(id)   == processedEvents \ {id}                 \* processedEvents.delete(id)

\* ------------------------------------------------------------------ Init
HandlerInit ==
    /\ running = NoReq
    /\ req = [r \in Reqs |-> [body |-> EmptyBody, sig |-> NoSig]]
    /\ pc = [r \in Reqs |-> "idle"]
    /\ event = [r \in Reqs |-> NoEvent]
    /\ processedEvents = {}
    /\ stripeEvents = <<>>
    /\ responses = <<>>
    /\ eventRecord = [r \in Reqs |-> NoRecord]
    /\ handlerCalls = [i \in Ids |-> 0]
    /\ sinkCalls = [i \in Ids |-> 0]
    /\ sinkDelivered = [i \in Ids |-> 0]

AuxInit ==
    /\ statusReport = NoReport
    /\ storeCalls = [c \in Calls |-> NoCall]
    /\ wire = [r \in Reqs |-> <<>>]
    /\ stream = [r \in Reqs |-> NoStream]
    /\ verifierInput = [r \in Reqs |-> Unset]
    /\ table = [X \in Ids |-> 0]
    /\ tries = [r \in Reqs |-> 0]

BuilderInit ==
    /\ session = NoSession
    /\ now = 0
    /\ built = <<>>

Init ==
    /\ variant \in Variants
    /\ HandlerInit
    /\ AuxInit
    /\ BuilderInit

\* ------------------------------------------------------- request arrival
\* The HTTP layer (express.raw) has buffered the whole body and invokes the
\* route handler.  Requests are numbered in arrival order.
Arrive(r, body, kind) ==
    /\ running = NoReq
    /\ pc[r] = "idle"
    /\ \A q \in Reqs : q < r => pc[q] # "idle"
    /\ req' = [req EXCEPT ![r] = [body |-> body, sig |-> SignatureHeader(body, kind)]]
    /\ pc' = [pc EXCEPT ![r] = "start"]
    /\ running' = r
    /\ UNCHANGED <<eventRecord, variant, event, processedEvents, stripeEvents, responses,
                   handlerCalls, sinkCalls, sinkDelivered>>
    /\ UNCHANGED auxVars

\* =================================================================== part_006
\* src/unnamed/part_006, app.post('/api/webhook'), lines 16-85.

\* Faulty variant: the missing-header test is absent and verification is
\* attempted with an undefined header.
P6_CheckHeader_Skip(r) ==
    /\ variant = "part_006"
    /\ running = r /\ pc[r] = "start"
    /\ Goto(r, "verify")
    /\ UNCHANGED <<eventRecord, variant, req, event, processedEvents, stripeEvents,
                   responses, handlerCalls, sinkCalls, sinkDelivered>>
    /\ UNCHANGED auxVars

\* if (!sig) return res.status(400).send('No Stripe signature header found')
P6_CheckHeader(r) ==
    /\ variant = "part_006"
    /\ running = r /\ pc[r] = "start"
    /\ IF req[r].sig = NoSig
         THEN Respond(r, TextResponse(r, 400, "No Stripe signature header found"))
         ELSE Goto(r, "verify") /\ UNCHANGED responses
    /\ UNCHANGED <<eventRecord, variant, req, event, processedEvents, stripeEvents,
                   handlerCalls, sinkCalls, sinkDelivered>>
    /\ UNCHANGED auxVars

\* Faulty variant: the body is parsed and processed whatever the signature.
P6_Verify_Unchecked(r) ==
    /\ variant = "part_006"
    /\ running = r /\ pc[r] = "verify"
    /\ IF req[r].body # EmptyBody
         THEN /\ event' = [event EXCEPT ![r] = ParseEvent(req[r].body)]
              /\ Goto(r, "dupcheck")
              /\ UNCHANGED responses
         ELSE /\ Respond(r, TextResponse(r, 400, "Webhook Error: <err.message>"))
              /\ UNCHANGED event
    /\ UNCHANGED <<eventRecord, variant, req, processedEvents, stripeEvents,
                   handlerCalls, sinkCalls, sinkDelivered>>
    /\ UNCHANGED auxVars

\* try { event = stripe.webhooks.constructEvent(req.body, sig, secret) }
\* catch (err) { return res.status(400).send(`Webhook Error: ...`) }
P6_Verify(r) ==
    /\ variant = "part_006"
    /\ running = r /\ pc[r] = "verify"
    /\ IF SignatureValid(req[r].body, req[r].sig)
         THEN /\ event' = [event EXCEPT ![r] = ParseEvent(req[r].body)]
              /\ Goto(r, "dupcheck")
              /\ UNCHANGED responses
         ELSE /\ Respond(r, TextResponse(r, 400, "Webhook Error: <err.message>"))
              /\ UNCHANGED event
    /\ UNCHANGED <<eventRecord, variant, req, processedEvents, stripeEvents,
                   handlerCalls, sinkCalls, sinkDelivered>>
    /\ UNCHANGED auxVars

\* Faulty variant: the duplicate test sits inside the try block and throws,
\* so the catch releases the identifier for a request that never claimed it.
P6_CheckDuplicate_Release(r) ==
    /\ variant = "part_006"
    /\ running = r /\ pc[r] = "dupcheck"
    /\ IF isClaimed(event[r])
         THEN /\ processedEvents' = release(event[r])
              /\ Respond(r, JsonResponse(r, 500,
                     [error |-> "Processing failed", event_id |-> event[r]]))
         ELSE /\ Goto(r, "log")
              /\ UNCHANGED <<responses, processedEvents>>
    /\ UNCHANGED <<eventRecord, variant, req, event, stripeEvents,
                   handlerCalls, sinkCalls, sinkDelivered>>
    /\ UNCHANGED auxVars

\* Faulty variant: the ledger is not consulted.
P6_CheckDuplicate_Never(r) ==
    /\ variant = "part_006"
    /\ running = r /\ pc[r] = "dupcheck"
    /\ Goto(r, "log")
    /\ UNCHANGED <<eventRecord, variant, req, event, processedEvents, stripeEvents,
                   responses, handlerCalls, sinkCalls, sinkDelivered>>
    /\ UNCHANGED auxVars

\* if (processedEvents.has(event.id)) return res.json({... reason: 'duplicate' ...})
P6_CheckDuplicate(r) ==
    /\ variant = "part_006"
    /\ running = r /\ pc[r] = "dupcheck"
    /\ IF isClaimed(event[r])
         THEN Respond(r, JsonResponse(r, 200,
                  [received |-> TRUE, processed |-> FALSE,
                   reason |-> "duplicate", event_id |-> event[r]]))
         ELSE Goto(r, "log") /\ UNCHANGED responses
    /\ UNCHANGED <<eventRecord, variant, req, event, processedEvents, stripeEvents,
                   handlerCalls, sinkCalls, sinkDelivered>>
    /\ UNCHANGED auxVars

\* Faulty variant: the raw event is not logged before the claim.
P6_LogEvent_Skip(r) ==
    /\ variant = "part_006"
    /\ running = r /\ pc[r] = "log"
    /\ Goto(r, "claim")
    /\ UNCHANGED <<eventRecord, variant, req, event, processedEvents, stripeEvents,
                   responses, handlerCalls, sinkCalls, sinkDelivered>>
    /\ UNCHANGED auxVars

\* stripeEvents.push({ event_id, type, created, raw_payload, processed_at })
P6_LogEvent(r) ==
    /\ variant = "part_006"
    /\ running = r /\ pc[r] = "log"
    /\ stripeEvents' = Append(stripeEvents,
           [event_id |-> event[r], type |-> EventType(event[r]),
            raw_payload |-> event[r]])
    /\ Goto(r, "claim")
    /\ UNCHANGED <<eventRecord, variant, req, event, processedEvents, responses,
                   handlerCalls, sinkCalls, sinkDelivered>>
    /\ UNCHANGED auxVars

\* processedEvents.add(event.id)
P6_Claim(r) ==
    /\ variant = "part_006"
    /\ running = r /\ pc[r] = "claim"
    /\ processedEvents' = claim(event[r])
    /\ Goto(r, "dispatch")
    /\ UNCHANGED <<eventRecord, variant, req, event, stripeEvents, responses,
                   handlerCalls, sinkCalls, sinkDelivered>>
    /\ UNCHANGED auxVars

\* Faulty variant: the type test is missing, every event reaches the handler.
P6_Dispatch_AllTypes(r) ==
    /\ variant = "part_006"
    /\ running = r /\ pc[r] = "dispatch"
    /\ handlerCalls' = [handlerCalls EXCEPT ![event[r]] = @ + 1]
    /\ sinkCalls' = [sinkCalls EXCEPT ![event[r]] = @ + 1]
    /\ Suspend(r)
    /\ UNCHANGED responses
    /\ UNCHANGED <<eventRecord, variant, req, event, processedEvents, stripeEvents, sinkDelivered>>
    /\ UNCHANGED auxVars

\* Faulty variant: the handler call is missing, every event is acknowledged
\* as processed without a delivery.
P6_Dispatch_SkipHandler(r) ==
    /\ variant = "part_006"
    /\ running = r /\ pc[r] = "dispatch"
    /\ Respond(r, JsonResponse(r, 200,
           [received |-> TRUE, processed |-> TRUE,
            event_id |-> event[r], event_type |-> EventType(event[r])]))
    /\ UNCHANGED <<handlerCalls, sinkCalls>>
    /\ UNCHANGED <<eventRecord, variant, req, event, processedEvents, stripeEvents, sinkDelivered>>
    /\ UNCHANGED auxVars

\* if (event.type === 'checkout.session.completed')
\*     await processCheckoutCompleted(event.data.object);
\* res.json({ received: true, processed: true, event_id, event_type })
\* processCheckoutCompleted builds the record synchronously and calls
\* storeSubscription, which issues the fetch and suspends on it.
P6_Dispatch(r) ==
    /\ variant = "part_006"
    /\ running = r /\ pc[r] = "dispatch"
    /\ IF EventType(event[r]) = "checkout.session.completed"
         THEN /\ handlerCalls' = [handlerCalls EXCEPT ![event[r]] = @ + 1]
              /\ sinkCalls' = [sinkCalls EXCEPT ![event[r]] = @ + 1]
              /\ Suspend(r)
              /\ UNCHANGED responses
         ELSE /\ Respond(r, JsonResponse(r, 200,
                     [received |-> TRUE, processed |-> TRUE,
                      event_id |-> event[r], event_type |-> EventType(event[r])]))
              /\ UNCHANGED <<handlerCalls, sinkCalls>>
    /\ UNCHANGED <<eventRecord, variant, req, event, processedEvents, stripeEvents, sinkDelivered>>
    /\ UNCHANGED auxVars

\* Faulty variant: the claim is dropped on success as well.
P6_SinkOk_Release(r) ==
    /\ variant = "part_006"
    /\ running = NoReq /\ pc[r] = "await"
    /\ sinkDelivered' = [sinkDelivered EXCEPT ![event[r]] = @ + 1]
    /\ processedEvents' = processedEvents \ {event[r]}
    /\ Respond(r, JsonResponse(r, 200,
           [received |-> TRUE, processed |-> TRUE,
            event_id |-> event[r], event_type |-> EventType(event[r])]))
    /\ UNCHANGED <<eventRecord, variant, req, event, stripeEvents,
                   handlerCalls, sinkCalls>>
    /\ UNCHANGED auxVars

\* Faulty variant: once delivered, the logged payload is dropped.
P6_SinkOk_ScrubPayload(r) ==
    /\ variant = "part_006"
    /\ running = NoReq /\ pc[r] = "await"
    /\ sinkDelivered' = [sinkDelivered EXCEPT ![event[r]] = @ + 1]
    /\ stripeEvents' = [i \in DOMAIN stripeEvents |->
           IF stripeEvents[i].event_id = event[r]
             THEN [stripeEvents[i] EXCEPT !.raw_payload = NoEvent]
             ELSE stripeEvents[i]]
    /\ Respond(r, JsonResponse(r, 200,
           [received |-> TRUE, processed |-> TRUE,
            event_id |-> event[r], event_type |-> EventType(event[r])]))
    /\ UNCHANGED <<eventRecord, variant, req, event, processedEvents,
                   handlerCalls, sinkCalls>>
    /\ UNCHANGED auxVars

\* The fetch resolved with response.ok: storeSubscription and
\* processCheckoutCompleted return, the handler answers processed:true.
P6_SinkOk(r) ==
    /\ variant = "part_006"
    /\ running = NoReq /\ pc[r] = "await"
    /\ sinkDelivered' = [sinkDelivered EXCEPT ![event[r]] = @ + 1]
    /\ Respond(r, JsonResponse(r, 200,
           [received |-> TRUE, processed |-> TRUE,
            event_id |-> event[r], event_type |-> EventType(event[r])]))
    /\ UNCHANGED <<eventRecord, variant, req, event, processedEvents, stripeEvents,
                   handlerCalls, sinkCalls>>
    /\ UNCHANGED auxVars

\* Faulty variant: the catch block also rolls the log back (stripeEvents.pop()).
P6_SinkFail_PopLog(r) ==
    /\ variant = "part_006"
    /\ running = NoReq /\ pc[r] = "await"
    /\ processedEvents' = release(event[r])
    /\ stripeEvents' = SubSeq(stripeEvents, 1, Len(stripeEvents) - 1)
    /\ Respond(r, JsonResponse(r, 500,
           [error |-> "Processing failed", event_id |-> event[r]]))
    /\ UNCHANGED <<eventRecord, variant, req, event,
                   handlerCalls, sinkCalls, sinkDelivered>>
    /\ UNCHANGED auxVars

\* Faulty variant: the catch block empties the ledger (processedEvents.clear()).
P6_SinkFail_Clear(r) ==
    /\ variant = "part_006"
    /\ running = NoReq /\ pc[r] = "await"
    /\ processedEvents' = {}
    /\ Respond(r, JsonResponse(r, 500,
           [error |-> "Processing failed", event_id |-> event[r]]))
    /\ UNCHANGED <<eventRecord, variant, req, event, stripeEvents,
                   handlerCalls, sinkCalls, sinkDelivered>>
    /\ UNCHANGED auxVars

\* Faulty variant: the catch block answers 500 but keeps the claim.
P6_SinkFail_KeepClaim(r) ==
    /\ variant = "part_006"
    /\ running = NoReq /\ pc[r] = "await"
    /\ Respond(r, JsonResponse(r, 500,
           [error |-> "Processing failed", event_id |-> event[r]]))
    /\ UNCHANGED <<eventRecord, variant, req, event, processedEvents, stripeEvents,
                   handlerCalls, sinkCalls, sinkDelivered>>
    /\ UNCHANGED auxVars

\* Faulty variant: the catch block releases the claim and logs, but sends
\* no response.
P6_SinkFail_Silent(r) ==
    /\ variant = "part_006"
    /\ running = NoReq /\ pc[r] = "await"
    /\ processedEvents' = release(event[r])
    /\ pc' = [pc EXCEPT ![r] = "done"]
    /\ UNCHANGED <<eventRecord, variant, running, req, event, stripeEvents, responses,
                   handlerCalls, sinkCalls, sinkDelivered>>
    /\ UNCHANGED auxVars

\* Faulty variant: the sink error is swallowed and the request acknowledged.
P6_SinkFail_Ack200(r) ==
    /\ variant = "part_006"
    /\ running = NoReq /\ pc[r] = "await"
    /\ processedEvents' = processedEvents \ {event[r]}
    /\ Respond(r, JsonResponse(r, 200,
           [received |-> TRUE, processed |-> TRUE,
            event_id |-> event[r], event_type |-> EventType(event[r])]))
    /\ UNCHANGED <<eventRecord, variant, req, event, stripeEvents,
                   handlerCalls, sinkCalls, sinkDelivered>>
    /\ UNCHANGED auxVars

\* The fetch rejected, or resolved with !response.ok and storeSubscription
\* threw: catch (error) { processedEvents.delete(event.id);
\*                        res.status(500).json({ error, event_id }) }
P6_SinkFail(r) ==
    /\ variant = "part_006"
    /\ running = NoReq /\ pc[r] = "await"
    /\ processedEvents' = release(event[r])
    /\ Respond(r, JsonResponse(r, 500,
           [error |-> "Processing failed", event_id |-> event[r]]))
    /\ UNCHANGED <<eventRecord, variant, req, event, stripeEvents,
                   handlerCalls, sinkCalls, sinkDelivered>>
    /\ UNCHANGED auxVars

P6Next ==
    \E r \in Reqs :
        \/ P6_CheckHeader(r)
        \/ P6_Verify(r)
        \/ P6_CheckDuplicate(r)
        \/ P6_LogEvent(r)
        \/ P6_Claim(r)
        \/ P6_Dispatch(r)
        \/ P6_SinkOk(r)
        \/ P6_SinkFail(r)

\* ================================================================ part_009_v2
\* src/unnamed/part_009, app.post('/api/webhook'), lines 566-644: the body
\* is collected by req.on('data') and the pipeline runs in req.on('end').

\* if (!sig) return res.status(400).send('No signature')
V2_CheckHeader(r) ==
    /\ variant = "part_009_v2"
    /\ running = r /\ pc[r] = "start"
    /\ IF req[r].sig = NoSig
         THEN Respond(r, TextResponse(r, 400, "No signature"))
         ELSE Goto(r, "bodycheck") /\ UNCHANGED responses
    /\ UNCHANGED <<eventRecord, variant, req, event, processedEvents, stripeEvents,
                   handlerCalls, sinkCalls, sinkDelivered>>
    /\ UNCHANGED auxVars

\* if (!rawBody) return res.status(400).send('Empty body')
V2_CheckBody(r) ==
    /\ variant = "part_009_v2"
    /\ running = r /\ pc[r] = "bodycheck"
    /\ IF req[r].body = EmptyBody
         THEN Respond(r, TextResponse(r, 400, "Empty body"))
         ELSE Goto(r, "verify") /\ UNCHANGED responses
    /\ UNCHANGED <<eventRecord, variant, req, event, processedEvents, stripeEvents,
                   handlerCalls, sinkCalls, sinkDelivered>>
    /\ UNCHANGED auxVars

\* try { event = stripe.webhooks.constructEvent(rawBody, sig, secret) }
\* catch (err) { return res.status(400).send('Verification failed') }
V2_Verify(r) ==
    /\ variant = "part_009_v2"
    /\ running = r /\ pc[r] = "verify"
    /\ IF SignatureValid(req[r].body, req[r].sig)
         THEN /\ event' = [event EXCEPT ![r] = ParseEvent(req[r].body)]
              /\ Goto(r, "dupcheck")
              /\ UNCHANGED responses
         ELSE /\ Respond(r, TextResponse(r, 400, "Verification failed"))
              /\ UNCHANGED event
    /\ UNCHANGED <<eventRecord, variant, req, processedEvents, stripeEvents,
                   handlerCalls, sinkCalls, sinkDelivered>>
    /\ UNCHANGED auxVars

\* if (processedEvents.has(event.id))
\*     return res.json({ received: true, processed: false, reason: 'duplicate' })
V2_CheckDuplicate(r) ==
    /\ variant = "part_009_v2"
    /\ running = r /\ pc[r] = "dupcheck"
    /\ IF isClaimed(event[r])
         THEN Respond(r, JsonResponse(r, 200,
                  [received |-> TRUE, processed |-> FALSE, reason |-> "duplicate"]))
         ELSE Goto(r, "claim") /\ UNCHANGED responses
    /\ UNCHANGED <<eventRecord, variant, req, event, processedEvents, stripeEvents,
                   handlerCalls, sinkCalls, sinkDelivered>>
    /\ UNCHANGED auxVars

\* processedEvents.add(event.id)   (this revision claims before it logs)
V2_Claim(r) ==
    /\ variant = "part_009_v2"
    /\ running = r /\ pc[r] = "claim"
    /\ processedEvents' = claim(event[r])
    /\ Goto(r, "log")
    /\ UNCHANGED <<eventRecord, variant, req, event, stripeEvents, responses,
                   handlerCalls, sinkCalls, sinkDelivered>>
    /\ UNCHANGED auxVars

\* stripeEvents.push({ event_id, type, created, processed_at })
V2_LogEvent(r) ==
    /\ variant = "part_009_v2"
    /\ running = r /\ pc[r] = "log"
    /\ stripeEvents' = Append(stripeEvents,
           [event_id |-> event[r], type |-> EventType(event[r])])
    /\ Goto(r, "dispatch")
    /\ UNCHANGED <<eventRecord, variant, req, event, processedEvents, responses,
                   handlerCalls, sinkCalls, sinkDelivered>>
    /\ UNCHANGED auxVars

\* if (event.type === 'checkout.session.completed')
\*     await processCheckoutCompleted(event.data.object);
\* res.json({ received: true, processed: true, event_id: event.id })
V2_Dispatch(r) ==
    /\ variant = "part_009_v2"
    /\ running = r /\ pc[r] = "dispatch"
    /\ IF EventType(event[r]) = "checkout.session.completed"
         THEN /\ handlerCalls' = [handlerCalls EXCEPT ![event[r]] = @ + 1]
              /\ sinkCalls' = [sinkCalls EXCEPT ![event[r]] = @ + 1]
              /\ Suspend(r)
              /\ UNCHANGED responses
         ELSE /\ Respond(r, JsonResponse(r, 200,
                     [received |-> TRUE, processed |-> TRUE, event_id |-> event[r]]))
              /\ UNCHANGED <<handlerCalls, sinkCalls>>
    /\ UNCHANGED <<eventRecord, variant, req, event, processedEvents, stripeEvents,
                   sinkDelivered>>
    /\ UNCHANGED auxVars

\* fetch resolved with response.ok
V2_SinkOk(r) ==
    /\ variant = "part_009_v2"
    /\ running = NoReq /\ pc[r] = "await"
    /\ sinkDelivered' = [sinkDelivered EXCEPT ![event[r]] = @ + 1]
    /\ Respond(r, JsonResponse(r, 200,
           [received |-> TRUE, processed |-> TRUE, event_id |-> event[r]]))
    /\ UNCHANGED <<eventRecord, variant, req, event, processedEvents, stripeEvents,
                   handlerCalls, sinkCalls>>
    /\ UNCHANGED auxVars

\* catch (error) { processedEvents.delete(event.id);
\*                 res.status(500).json({ error: 'Processing failed' }) }
V2_SinkFail(r) ==
    /\ variant = "part_009_v2"
    /\ running = NoReq /\ pc[r] = "await"
    /\ processedEvents' = release(event[r])
    /\ Respond(r, JsonResponse(r, 500, [error |-> "Processing failed"]))
    /\ UNCHANGED <<eventRecord, variant, req, event, stripeEvents,
                   handlerCalls, sinkCalls, sinkDelivered>>
    /\ UNCHANGED auxVars

V2Next ==
    \E r \in Reqs :
        \/ V2_CheckHeader(r)
        \/ V2_CheckBody(r)
        \/ V2_Verify(r)
        \/ V2_CheckDuplicate(r)
        \/ V2_Claim(r)
        \/ V2_LogEvent(r)
        \/ V2_Dispatch(r)
        \/ V2_SinkOk(r)
        \/ V2_SinkFail(r)

\* =========================================================== part_009_webhook
\* src/unnamed/part_009, app.post('/webhook'), lines 773-833.  The log is
\* called eventLog there; its records carry an `action` field.

\* record.<field> = value on a log record (adds the field when absent)
SetField(rec, field, value) == (field :> value) @@ rec

\* The types this revision routes to a handler (lines 812-818).
WH_Handled(type) ==
    type \in {"checkout.session.completed", "customer.subscription.created",
              "invoice.payment_succeeded"}

\* try { event = stripe.webhooks.constructEvent(req.body, sig, endpointSecret) }
\* catch (err) { return res.status(400).send(`Webhook Error: ${err.message}`) }
WH_Verify(r) ==
    /\ variant = "part_009_webhook"
    /\ running = r /\ pc[r] = "start"
    /\ IF SignatureValid(req[r].body, req[r].sig)
         THEN /\ event' = [event EXCEPT ![r] = ParseEvent(req[r].body)]
              /\ Goto(r, "log")
              /\ UNCHANGED responses
         ELSE /\ Respond(r, TextResponse(r, 400, "Webhook Error: <err.message>"))
              /\ UNCHANGED event
    /\ UNCHANGED <<eventRecord, variant, req, processedEvents, stripeEvents,
                   handlerCalls, sinkCalls, sinkDelivered>>
    /\ UNCHANGED auxVars

\* const eventRecord = { id, type, created, timestamp, data,
\*                       isRetry: processedEvents.has(event.id) };
\* eventLog.push(eventRecord);
WH_LogEvent(r) ==
    /\ variant = "part_009_webhook"
    /\ running = r /\ pc[r] = "log"
    /\ stripeEvents' = Append(stripeEvents,
           [id |-> event[r], type |-> EventType(event[r]),
            data |-> event[r], isRetry |-> isClaimed(event[r])])
    /\ eventRecord' = [eventRecord EXCEPT ![r] = Len(stripeEvents) + 1]
    /\ Goto(r, "dupcheck")
    /\ UNCHANGED <<variant, req, event, processedEvents, responses,
                   handlerCalls, sinkCalls, sinkDelivered>>
    /\ UNCHANGED auxVars

\* if (processedEvents.has(event.id)) {
\*     eventLog[eventLog.length - 1].action = 'SKIPPED_DUPLICATE';
\*     return res.json({ received: true, processed: false, reason: 'duplicate' }) }
WH_CheckDuplicate(r) ==
    /\ variant = "part_009_webhook"
    /\ running = r /\ pc[r] = "dupcheck"
    /\ IF isClaimed(event[r])
         THEN /\ stripeEvents' = [stripeEvents EXCEPT ![Len(stripeEvents)] =
                                     SetField(@, "action", "SKIPPED_DUPLICATE")]
              /\ Respond(r, JsonResponse(r, 200,
                     [received |-> TRUE, processed |-> FALSE, reason |-> "duplicate"]))
         ELSE /\ Goto(r, "claim")
              /\ UNCHANGED <<responses, stripeEvents>>
    /\ UNCHANGED <<eventRecord, variant, req, event, processedEvents,
                   handlerCalls, sinkCalls, sinkDelivered>>
    /\ UNCHANGED auxVars

\* processedEvents.add(event.id); eventRecord.action = 'PROCESSED';
WH_Claim(r) ==
    /\ variant = "part_009_webhook"
    /\ running = r /\ pc[r] = "claim"
    /\ processedEvents' = claim(event[r])
    /\ stripeEvents' = [stripeEvents EXCEPT ![eventRecord[r]] =
                           SetField(@, "action", "PROCESSED")]
    /\ Goto(r, "dispatch")
    /\ UNCHANGED <<eventRecord, variant, req, event, responses,
                   handlerCalls, sinkCalls, sinkDelivered>>
    /\ UNCHANGED auxVars

\* if / else if over event.type: await handleCheckoutCompleted(...) etc.;
\* every handler ends in `await forwardToZapier(...)`, which issues
\* axios.post(url, payload, { timeout: 10000 }) and suspends on it.
\* No branch taken: res.json({ received: true, processed: true })
WH_Dispatch(r) ==
    /\ variant = "part_009_webhook"
    /\ running = r /\ pc[r] = "dispatch"
    /\ IF WH_Handled(EventType(event[r]))
         THEN /\ handlerCalls' = [handlerCalls EXCEPT ![event[r]] = @ + 1]
              /\ sinkCalls' = [sinkCalls EXCEPT ![event[r]] = @ + 1]
              /\ Suspend(r)
              /\ UNCHANGED responses
         ELSE /\ Respond(r, JsonResponse(r, 200,
                     [received |-> TRUE, processed |-> TRUE]))
              /\ UNCHANGED <<handlerCalls, sinkCalls>>
    /\ UNCHANGED <<eventRecord, variant, req, event, processedEvents, stripeEvents,
                   sinkDelivered>>
    /\ UNCHANGED auxVars

\* axios.post resolved: res.json({ received: true, processed: true })
WH_SinkOk(r) ==
    /\ variant = "part_009_webhook"
    /\ running = NoReq /\ pc[r] = "await"
    /\ sinkDelivered' = [sinkDelivered EXCEPT ![event[r]] = @ + 1]
    /\ Respond(r, JsonResponse(r, 200, [received |-> TRUE, processed |-> TRUE]))
    /\ UNCHANGED <<eventRecord, variant, req, event, processedEvents, stripeEvents,
                   handlerCalls, sinkCalls>>
    /\ UNCHANGED auxVars

\* axios.post rejected (error status, network error or timeout) and
\* forwardToZapier rethrew:
\* catch (error) { eventRecord.action = 'ERROR'; eventRecord.error = error.message;
\*                 processedEvents.delete(event.id);
\*                 res.status(500).json({ error: 'Processing failed' }) }
WH_SinkFail(r) ==
    /\ variant = "part_009_webhook"
    /\ running = NoReq /\ pc[r] = "await"
    /\ stripeEvents' = [stripeEvents EXCEPT ![eventRecord[r]] =
                           SetField(SetField(@, "action", "ERROR"),
                                    "error", "Request failed")]
    /\ processedEvents' = release(event[r])
    /\ Respond(r, JsonResponse(r, 500, [error |-> "Processing failed"]))
    /\ UNCHANGED <<eventRecord, variant, req, event,
                   handlerCalls, sinkCalls, sinkDelivered>>
    /\ UNCHANGED auxVars

WHNext ==
    \E r \in Reqs :
        \/ WH_Verify(r)
        \/ WH_LogEvent(r)
        \/ WH_CheckDuplicate(r)
        \/ WH_Claim(r)
        \/ WH_Dispatch(r)
        \/ WH_SinkOk(r)
        \/ WH_SinkFail(r)

\* ------------------------------------------------------------------ Next
Next ==
    \/ \E r \in Reqs, body \in Bodies, kind \in HeaderKinds : Arrive(r, body, kind)
    \/ P6Next
    \/ V2Next
    \/ WHNext

Spec == Init /\ [][Next]_vars

TypeOK ==
    /\ variant \in Variants \cup {"part_009_airtable", "part_007", "part_003", "part_000", "server_js"}
    /\ running \in Reqs \cup {NoReq}
    /\ processedEvents \subseteq Ids
    /\ \A r \in Reqs : event[r] \in Ids \cup {NoEvent}

\* The revision of part_006 alone (the same handler is in part_001 and part_004).
InitP6 == Init /\ variant = "part_006"

NextP6 ==
    \/ \E r \in Reqs, body \in Bodies, kind \in HeaderKinds : Arrive(r, body, kind)
    \/ P6Next

SpecP6 == InitP6 /\ [][NextP6]_vars

\* The "version 2.0" revision of part_009 alone.
InitV2 == Init /\ variant = "part_009_v2"

NextV2 ==
    \/ \E r \in Reqs, body \in Bodies, kind \in HeaderKinds : Arrive(r, body, kind)
    \/ V2Next

SpecV2 == InitV2 /\ [][NextV2]_vars

\* The eventLog revision of part_009 alone.
InitWH == Init /\ variant = "part_009_webhook"

NextWH ==
    \/ \E r \in Reqs, body \in Bodies, kind \in HeaderKinds : Arrive(r, body, kind)
    \/ WHNext

SpecWH == InitWH /\ [][NextWH]_vars

\* ================================================================== part_007
\* src/unnamed/part_007, app.post("/webhook"), lines 32-83 (the same route
\* and handler are in part_008, lines 82-136): no ledger and no log;
\* processCheckoutCompleted wraps its awaits in a try whose catch only logs.

\* try { event = stripe.webhooks.constructEvent(req.body, sig, webhookSecret) }
\* catch (err) { return res.status(400).send(`Webhook Error: ...`) }
P7_Verify(r) ==
    /\ variant = "part_007"
    /\ running = r /\ pc[r] = "start"
    /\ IF SignatureValid(req[r].body, req[r].sig)
         THEN /\ event' = [event EXCEPT ![r] = ParseEvent(req[r].body)]
              /\ Goto(r, "dispatch")
              /\ UNCHANGED responses
         ELSE /\ Respond(r, TextResponse(r, 400, "Webhook Error: <err.message>"))
              /\ UNCHANGED event
    /\ UNCHANGED <<eventRecord, variant, req, processedEvents, stripeEvents,
                   handlerCalls, sinkCalls, sinkDelivered>>
    /\ UNCHANGED auxVars

\* if (event.type === "checkout.session.completed")
\*     await processCheckoutCompleted(event);
\* res.json({ received: true })
P7_Dispatch(r) ==
    /\ variant = "part_007"
    /\ running = r /\ pc[r] = "dispatch"
    /\ IF EventType(event[r]) = "checkout.session.completed"
         THEN /\ handlerCalls' = [handlerCalls EXCEPT ![event[r]] = @ + 1]
              /\ sinkCalls' = [sinkCalls EXCEPT ![event[r]] = @ + 1]
              /\ Suspend(r)
              /\ UNCHANGED responses
         ELSE /\ Respond(r, JsonResponse(r, 200, [received |-> TRUE]))
              /\ UNCHANGED <<handlerCalls, sinkCalls>>
    /\ UNCHANGED <<eventRecord, variant, req, event, processedEvents, stripeEvents,
                   sinkDelivered>>
    /\ UNCHANGED auxVars

\* storeSubscription returned: processCheckoutCompleted returns and the
\* route answers { received: true }.
P7_SinkOk(r) ==
    /\ variant = "part_007"
    /\ running = NoReq /\ pc[r] = "await"
    /\ sinkDelivered' = [sinkDelivered EXCEPT ![event[r]] = @ + 1]
    /\ Respond(r, JsonResponse(r, 200, [received |-> TRUE]))
    /\ UNCHANGED <<eventRecord, variant, req, event, processedEvents, stripeEvents,
                   handlerCalls, sinkCalls>>
    /\ UNCHANGED auxVars

\* A Stripe retrieve or storeSubscription threw: the catch inside
\* processCheckoutCompleted logs the error and returns normally, so the
\* route's own catch (500) is not entered and the route answers
\* { received: true }.
P7_SinkFail(r) ==
    /\ variant = "part_007"
    /\ running = NoReq /\ pc[r] = "await"
    /\ Respond(r, JsonResponse(r, 200, [received |-> TRUE]))
    /\ UNCHANGED <<eventRecord, variant, req, event, processedEvents, stripeEvents,
                   handlerCalls, sinkCalls, sinkDelivered>>
    /\ UNCHANGED auxVars

P7Next ==
    \E r \in Reqs :
        \/ P7_Verify(r)
        \/ P7_Dispatch(r)
        \/ P7_SinkOk(r)
        \/ P7_SinkFail(r)

InitP7 ==
    /\ variant = "part_007"
    /\ HandlerInit
    /\ AuxInit
    /\ BuilderInit

NextP7 ==
    \/ \E r \in Reqs, body \in Bodies, kind \in HeaderKinds : Arrive(r, body, kind)
    \/ P7Next

SpecP7 == InitP7 /\ [][NextP7]_vars

\* ================================================================== part_003
\* src/unnamed/part_003, app.use('/api/webhook'), lines 15-103: the
\* middleware reads the body itself, chunk by chunk, and runs the pipeline
\* in the 'end' callback; an 'error' on the stream is answered 400.

\* The bytes the signature in the header was computed over are the bytes
\* the client sent; the keyed hash being injective, constructEvent accepts
\* its input exactly when the header is the signature of the sent body and
\* the input is that body, byte for byte.
BytesVerify(r, bytes) ==
    /\ SignatureValid(req[r].body, req[r].sig)
    /\ bytes = wire[r]

\* The request's headers have arrived: the middleware sets the encoding and
\* registers its 'data', 'end' and 'error' listeners.
P3_Connect(r, body, kind, format) ==
    /\ variant = "part_003"
    /\ running = NoReq
    /\ pc[r] = "idle"
    /\ \A q \in Reqs : q < r => pc[q] # "idle"
    /\ req' = [req EXCEPT ![r] = [body |-> body, sig |-> SignatureHeader(body, kind)]]
    /\ wire' = [wire EXCEPT ![r] = WireBytes(body, format)]
    /\ stream' = [stream EXCEPT ![r] = [data |-> <<>>, state |-> "open"]]
    /\ pc' = [pc EXCEPT ![r] = "reading"]
    /\ UNCHANGED <<eventRecord, variant, running, event, processedEvents, stripeEvents,
                   responses, handlerCalls, sinkCalls, sinkDelivered>>
    /\ UNCHANGED <<statusReport, storeCalls, tableVars, session, now, built, verifierInput>>

\* req.on('data', (chunk) => { data += chunk }): the next n bytes arrive,
\* decoded as UTF-8.
P3_Data(r, n) ==
    /\ variant = "part_003"
    /\ running = NoReq
    /\ pc[r] = "reading" /\ stream[r].state = "open"
    /\ Len(stream[r].data) + n <= Len(wire[r])
    /\ stream' = [stream EXCEPT ![r].data =
           @ \o DecodeUtf8(SubSeq(wire[r], Len(@) + 1, Len(@) + n))]
    /\ UNCHANGED <<handlerVars, statusReport, storeCalls, tableVars, session, now, built,
                   wire, verifierInput>>

\* req.on('end', ...): every byte has been delivered; the callback starts.
P3_End(r) ==
    /\ variant = "part_003"
    /\ running = NoReq
    /\ pc[r] = "reading" /\ stream[r].state = "open"
    /\ Len(stream[r].data) = Len(wire[r])
    /\ stream' = [stream EXCEPT ![r].state = "ended"]
    /\ pc' = [pc EXCEPT ![r] = "start"]
    /\ running' = r
    /\ UNCHANGED <<eventRecord, variant, req, event, processedEvents, stripeEvents,
                   responses, handlerCalls, sinkCalls, sinkDelivered>>
    /\ UNCHANGED <<statusReport, storeCalls, tableVars, session, now, built, wire, verifierInput>>

\* Faulty variant: the error listener runs the pipeline on what has arrived.
P3_Error_Salvage(r) ==
    /\ variant = "part_003"
    /\ running = NoReq
    /\ pc[r] = "reading" /\ stream[r].state = "open"
    /\ stream' = [stream EXCEPT ![r].state = "errored"]
    /\ pc' = [pc EXCEPT ![r] = "start"]
    /\ running' = r
    /\ UNCHANGED <<eventRecord, variant, req, event, processedEvents, stripeEvents,
                   responses, handlerCalls, sinkCalls, sinkDelivered>>
    /\ UNCHANGED <<statusReport, storeCalls, tableVars, session, now, built, wire, verifierInput>>

\* req.on('error', ...): the stream fails before its end (a read error, or
\* the connection closed before the declared length was received); 'end'
\* is not emitted.  res.status(400).send('Request error')
P3_Error(r) ==
    /\ variant = "part_003"
    /\ running = NoReq
    /\ pc[r] = "reading" /\ stream[r].state = "open"
    /\ stream' = [stream EXCEPT ![r].state = "errored"]
    /\ Respond(r, TextResponse(r, 400, "Request error"))
    /\ UNCHANGED <<eventRecord, variant, req, event, processedEvents, stripeEvents,
                   handlerCalls, sinkCalls, sinkDelivered>>
    /\ UNCHANGED <<statusReport, storeCalls, tableVars, session, now, built, wire, verifierInput>>

\* if (!sig) return res.status(400).send('No Stripe signature header found')
P3_CheckHeader(r) ==
    /\ variant = "part_003"
    /\ running = r /\ pc[r] = "start"
    /\ IF req[r].sig = NoSig
         THEN Respond(r, TextResponse(r, 400, "No Stripe signature header found"))
         ELSE Goto(r, "bodycheck") /\ UNCHANGED responses
    /\ UNCHANGED <<eventRecord, variant, req, event, processedEvents, stripeEvents,
                   handlerCalls, sinkCalls, sinkDelivered>>
    /\ UNCHANGED auxVars

\* if (!data || data.length === 0) return res.status(400).send('Empty request body')
P3_CheckBody(r) ==
    /\ variant = "part_003"
    /\ running = r /\ pc[r] = "bodycheck"
    /\ IF stream[r].data = <<>>
         THEN Respond(r, TextResponse(r, 400, "Empty request body"))
         ELSE Goto(r, "verify") /\ UNCHANGED responses
    /\ UNCHANGED <<eventRecord, variant, req, event, processedEvents, stripeEvents,
                   handlerCalls, sinkCalls, sinkDelivered>>
    /\ UNCHANGED auxVars

\* const bodyBuffer = Buffer.from(data, 'utf8');
\* try { event = stripe.webhooks.constructEvent(bodyBuffer, sig, secret) }
\* catch (err) { return res.status(400).send(`Webhook Error: ...`) }
P3_Verify(r) ==
    /\ variant = "part_003"
    /\ running = r /\ pc[r] = "verify"
    /\ verifierInput' = [verifierInput EXCEPT ![r] = EncodeUtf8(stream[r].data)]
    /\ IF BytesVerify(r, EncodeUtf8(stream[r].data))
         THEN /\ event' = [event EXCEPT ![r] = EventOfBytes(EncodeUtf8(stream[r].data))]
              /\ Goto(r, "dupcheck")
              /\ UNCHANGED responses
         ELSE /\ Respond(r, TextResponse(r, 400, "Webhook Error: <err.message>"))
              /\ UNCHANGED event
    /\ UNCHANGED <<eventRecord, variant, req, processedEvents, stripeEvents,
                   handlerCalls, sinkCalls, sinkDelivered>>
    /\ UNCHANGED <<statusReport, storeCalls, tableVars, session, now, built, wire, stream>>

\* if (processedEvents.has(event.id)) return res.json({... reason: 'duplicate' ...})
P3_CheckDuplicate(r) ==
    /\ variant = "part_003"
    /\ running = r /\ pc[r] = "dupcheck"
    /\ IF isClaimed(event[r])
         THEN Respond(r, JsonResponse(r, 200,
                  [received |-> TRUE, processed |-> FALSE,
                   reason |-> "duplicate", event_id |-> event[r]]))
         ELSE Goto(r, "log") /\ UNCHANGED responses
    /\ UNCHANGED <<eventRecord, variant, req, event, processedEvents, stripeEvents,
                   handlerCalls, sinkCalls, sinkDelivered>>
    /\ UNCHANGED auxVars

\* stripeEvents.push(rawEventRecord)
P3_LogEvent(r) ==
    /\ variant = "part_003"
    /\ running = r /\ pc[r] = "log"
    /\ stripeEvents' = Append(stripeEvents,
           [event_id |-> event[r], type |-> EventType(event[r]),
            raw_payload |-> event[r]])
    /\ Goto(r, "claim")
    /\ UNCHANGED <<eventRecord, variant, req, event, processedEvents, responses,
                   handlerCalls, sinkCalls, sinkDelivered>>
    /\ UNCHANGED auxVars

\* processedEvents.add(event.id)
P3_Claim(r) ==
    /\ variant = "part_003"
    /\ running = r /\ pc[r] = "claim"
    /\ processedEvents' = claim(event[r])
    /\ Goto(r, "dispatch")
    /\ UNCHANGED <<eventRecord, variant, req, event, stripeEvents, responses,
                   handlerCalls, sinkCalls, sinkDelivered>>
    /\ UNCHANGED auxVars

\* if (event.type === 'checkout.session.completed')
\*     await processCheckoutCompleted(event.data.object);
\* res.json({ received: true, processed: true, event_id, event_type })
P3_Dispatch(r) ==
    /\ variant = "part_003"
    /\ running = r /\ pc[r] = "dispatch"
    /\ IF EventType(event[r]) = "checkout.session.completed"
         THEN /\ handlerCalls' = [handlerCalls EXCEPT ![event[r]] = @ + 1]
              /\ sinkCalls' = [sinkCalls EXCEPT ![event[r]] = @ + 1]
              /\ Suspend(r)
              /\ UNCHANGED responses
         ELSE /\ Respond(r, JsonResponse(r, 200,
                     [received |-> TRUE, processed |-> TRUE,
                      event_id |-> event[r], event_type |-> EventType(event[r])]))
              /\ UNCHANGED <<handlerCalls, sinkCalls>>
    /\ UNCHANGED <<eventRecord, variant, req, event, processedEvents, stripeEvents,
                   sinkDelivered>>
    /\ UNCHANGED auxVars

\* The fetch resolved with response.ok.
P3_SinkOk(r) ==
    /\ variant = "part_003"
    /\ running = NoReq /\ pc[r] = "await"
    /\ sinkDelivered' = [sinkDelivered EXCEPT ![event[r]] = @ + 1]
    /\ Respond(r, JsonResponse(r, 200,
           [received |-> TRUE, processed |-> TRUE,
            event_id |-> event[r], event_type |-> EventType(event[r])]))
    /\ UNCHANGED <<eventRecord, variant, req, event, processedEvents, stripeEvents,
                   handlerCalls, sinkCalls>>
    /\ UNCHANGED auxVars

\* catch (error) { processedEvents.delete(event.id);
\*                 res.status(500).json({ error, event_id }) }
P3_SinkFail(r) ==
    /\ variant = "part_003"
    /\ running = NoReq /\ pc[r] = "await"
    /\ processedEvents' = release(event[r])
    /\ Respond(r, JsonResponse(r, 500,
           [error |-> "Processing failed", event_id |-> event[r]]))
    /\ UNCHANGED <<eventRecord, variant, req, event, stripeEvents,
                   handlerCalls, sinkCalls, sinkDelivered>>
    /\ UNCHANGED auxVars

\* The requests sent to the streaming middleware: a body without header,
\* and every serialisation of a body under its valid header (the one whose
\* bytes are not valid UTF-8 fails verification).
StreamInputs ==
    {<<"missing", "compact">>} \cup ({"valid"} \X BodyFormats)

Streams == (1..MaxStreams) \cap Reqs

\* The bodies sent to it: the empty body, a checkout event and an event of
\* another type (the middleware reads every body the same way).
StreamBodies == {EmptyBody} \cup {b \in Ids : b <= 2}

P3Next ==
    \/ \E r \in Streams, body \in StreamBodies, in \in StreamInputs :
          P3_Connect(r, body, in[1], in[2])
    \/ \E r \in Streams, n \in 1..MaxChunk : P3_Data(r, n)
    \/ \E r \in Streams :
          \/ P3_End(r)
          \/ P3_Error(r)
          \/ P3_CheckHeader(r)
          \/ P3_CheckBody(r)
          \/ P3_Verify(r)
          \/ P3_CheckDuplicate(r)
          \/ P3_LogEvent(r)
          \/ P3_Claim(r)
          \/ P3_Dispatch(r)
          \/ P3_SinkOk(r)
          \/ P3_SinkFail(r)

InitP3 ==
    /\ variant = "part_003"
    /\ HandlerInit
    /\ AuxInit
    /\ BuilderInit

SpecP3 == InitP3 /\ [][P3Next]_vars

\* ================================================================== part_000
\* src/unnamed/part_000, handler, lines 6-76: a serverless route whose
\* framework has read and parsed the JSON body into req.body before the
\* handler is called.  storeSubscription (150-193) only logs: its fetch is
\* commented out, so the handler performs no sink call and no step of it
\* gives up the event loop to another request.

\* The framework decodes the received bytes and parses them; the handler is
\* invoked with the parsed value.
P0_Arrive(r, body, kind, format) ==
    /\ variant = "part_000"
    /\ running = NoReq
    /\ pc[r] = "idle"
    /\ \A q \in Reqs : q < r => pc[q] # "idle"
    /\ req' = [req EXCEPT ![r] = [body |-> body, sig |-> SignatureHeader(body, kind)]]
    /\ wire' = [wire EXCEPT ![r] = WireBytes(body, format)]
    /\ pc' = [pc EXCEPT ![r] = "verify"]
    /\ running' = r
    /\ UNCHANGED <<eventRecord, variant, event, processedEvents, stripeEvents, responses,
                   handlerCalls, sinkCalls, sinkDelivered>>
    /\ UNCHANGED <<statusReport, storeCalls, tableVars, session, now, built, stream, verifierInput>>

\* const rawBody = JSON.stringify(req.body)
RawBody(r) == EncodeUtf8(JsonStringify(JsonParse(DecodeUtf8(wire[r]))))

\* try { event = stripe.webhooks.constructEvent(rawBody, sig, secret) }
\* catch (err) { return res.status(400).json({ error: `Webhook Error: ...` }) }
P0_Verify(r) ==
    /\ variant = "part_000"
    /\ running = r /\ pc[r] = "verify"
    /\ verifierInput' = [verifierInput EXCEPT ![r] = RawBody(r)]
    /\ IF BytesVerify(r, RawBody(r))
         THEN /\ event' = [event EXCEPT ![r] = EventOfBytes(RawBody(r))]
              /\ Goto(r, "dupcheck")
              /\ UNCHANGED responses
         ELSE /\ Respond(r, JsonResponse(r, 400, [error |-> "Webhook Error: <err.message>"]))
              /\ UNCHANGED event
    /\ UNCHANGED <<eventRecord, variant, req, processedEvents, stripeEvents,
                   handlerCalls, sinkCalls, sinkDelivered>>
    /\ UNCHANGED <<statusReport, storeCalls, tableVars, session, now, built, wire, stream>>

\* if (processedEvents.has(event.id)) return res.json({... reason: 'duplicate' ...})
P0_CheckDuplicate(r) ==
    /\ variant = "part_000"
    /\ running = r /\ pc[r] = "dupcheck"
    /\ IF isClaimed(event[r])
         THEN Respond(r, JsonResponse(r, 200,
                  [received |-> TRUE, processed |-> FALSE,
                   reason |-> "duplicate", event_id |-> event[r]]))
         ELSE Goto(r, "log") /\ UNCHANGED responses
    /\ UNCHANGED <<eventRecord, variant, req, event, processedEvents, stripeEvents,
                   handlerCalls, sinkCalls, sinkDelivered>>
    /\ UNCHANGED auxVars

\* stripeEvents.push(rawEventRecord)
P0_LogEvent(r) ==
    /\ variant = "part_000"
    /\ running = r /\ pc[r] = "log"
    /\ stripeEvents' = Append(stripeEvents,
           [event_id |-> event[r], type |-> EventType(event[r]),
            raw_payload |-> event[r]])
    /\ Goto(r, "claim")
    /\ UNCHANGED <<eventRecord, variant, req, event, processedEvents, responses,
                   handlerCalls, sinkCalls, sinkDelivered>>
    /\ UNCHANGED auxVars

\* processedEvents.add(event.id)
P0_Claim(r) ==
    /\ variant = "part_000"
    /\ running = r /\ pc[r] = "claim"
    /\ processedEvents' = claim(event[r])
    /\ Goto(r, "dispatch")
    /\ UNCHANGED <<eventRecord, variant, req, event, stripeEvents, responses,
                   handlerCalls, sinkCalls, sinkDelivered>>
    /\ UNCHANGED auxVars

\* if (event.type === 'checkout.session.completed')
\*     await processCheckoutCompleted(event.data.object);
\* return res.json({ received: true, processed: true, event_id, event_type })
P0_Dispatch(r) ==
    /\ variant = "part_000"
    /\ running = r /\ pc[r] = "dispatch"
    /\ handlerCalls' =
          IF EventType(event[r]) = "checkout.session.completed"
            THEN [handlerCalls EXCEPT ![event[r]] = @ + 1]
            ELSE handlerCalls
    /\ Respond(r, JsonResponse(r, 200,
           [received |-> TRUE, processed |-> TRUE,
            event_id |-> event[r], event_type |-> EventType(event[r])]))
    /\ UNCHANGED <<eventRecord, variant, req, event, processedEvents, stripeEvents,
                   sinkCalls, sinkDelivered>>
    /\ UNCHANGED auxVars

P0Next ==
    \/ \E r \in Reqs, body \in Bodies, kind \in HeaderKinds, format \in BodyFormats :
          P0_Arrive(r, body, kind, format)
    \/ \E r \in Reqs :
          \/ P0_Verify(r)
          \/ P0_CheckDuplicate(r)
          \/ P0_LogEvent(r)
          \/ P0_Claim(r)
          \/ P0_Dispatch(r)

InitP0 ==
    /\ variant = "part_000"
    /\ HandlerInit
    /\ AuxInit
    /\ BuilderInit

SpecP0 == InitP0 /\ [][P0Next]_vars

\* ================================================================= server.js
\* src/server.js, app.post("/webhook"), lines 33-88: no ledger and no log;
\* the duplicate check is a query of the sink table by session id (51-57),
\* the record is created through p-retry (60-74), and one try/catch
\* (39, 83-86) encloses verification, query and creation alike.  A session
\* is identified with the event that carries it.

PRetries == 3           \* { retries: 3 }: retries after the first invocation

\* const event = stripe.webhooks.constructEvent(req.body, sig, secret)
\* switch (event.type) { case "checkout.session.completed":
\*     const existingRecords = await table.select({...}).firstPage(); ...
\*   default: ... }  res.json({ received: true })
\* catch (err) { res.status(400).send(`Webhook Error: ...`) }
SJ_Verify(r) ==
    /\ variant = "server_js"
    /\ running = r /\ pc[r] = "start"
    /\ IF SignatureValid(req[r].body, req[r].sig)
         THEN /\ event' = [event EXCEPT ![r] = ParseEvent(req[r].body)]
              /\ IF EventType(ParseEvent(req[r].body)) = "checkout.session.completed"
                   THEN /\ pc' = [pc EXCEPT ![r] = "lookup"]
                        /\ running' = NoReq
                        /\ UNCHANGED responses
                   ELSE Respond(r, JsonResponse(r, 200, [received |-> TRUE]))
         ELSE /\ Respond(r, TextResponse(r, 400, "Webhook Error: <err.message>"))
              /\ UNCHANGED event
    /\ UNCHANGED <<eventRecord, variant, req, processedEvents, stripeEvents,
                   handlerCalls, sinkCalls, sinkDelivered>>
    /\ UNCHANGED auxVars

\* The query resolved with a record of this session:
\* if (existingRecords.length > 0) return res.json({ received: true })
SJ_LookupFound(r) ==
    /\ variant = "server_js"
    /\ running = NoReq /\ pc[r] = "lookup"
    /\ table[event[r]] > 0
    /\ Respond(r, JsonResponse(r, 200, [received |-> TRUE]))
    /\ UNCHANGED <<eventRecord, variant, req, event, processedEvents, stripeEvents,
                   handlerCalls, sinkCalls, sinkDelivered>>
    /\ UNCHANGED auxVars

\* The query resolved with no record: p-retry makes its first invocation of
\* table.create and the handler awaits it.
SJ_LookupEmpty(r) ==
    /\ variant = "server_js"
    /\ running = NoReq /\ pc[r] = "lookup"
    /\ table[event[r]] = 0
    /\ tries' = [tries EXCEPT ![r] = 1]
    /\ pc' = [pc EXCEPT ![r] = "create"]
    /\ UNCHANGED <<eventRecord, variant, running, req, event, processedEvents,
                   stripeEvents, responses, handlerCalls, sinkCalls, sinkDelivered>>
    /\ UNCHANGED <<statusReport, storeCalls, session, now, built, captureVars, table>>

\* The query rejected (network error, rate limit, bad formula): the
\* exception reaches the handler's only catch.
SJ_LookupFail(r) ==
    /\ variant = "server_js"
    /\ running = NoReq /\ pc[r] = "lookup"
    /\ Respond(r, TextResponse(r, 400, "Webhook Error: <err.message>"))
    /\ UNCHANGED <<eventRecord, variant, req, event, processedEvents, stripeEvents,
                   handlerCalls, sinkCalls, sinkDelivered>>
    /\ UNCHANGED auxVars

\* table.create resolved: the record is in the table.
\* res.json({ received: true })
SJ_CreateOk(r) ==
    /\ variant = "server_js"
    /\ running = NoReq /\ pc[r] = "create"
    /\ table' = [table EXCEPT ![event[r]] = @ + 1]
    /\ Respond(r, JsonResponse(r, 200, [received |-> TRUE]))
    /\ UNCHANGED <<eventRecord, variant, req, event, processedEvents, stripeEvents,
                   handlerCalls, sinkCalls, sinkDelivered>>
    /\ UNCHANGED <<statusReport, storeCalls, session, now, built, captureVars, tries>>

\* table.create rejected: p-retry invokes it again while retries are left;
\* after the last one it rejects and the handler's catch answers.
SJ_CreateFail(r) ==
    /\ variant = "server_js"
    /\ running = NoReq /\ pc[r] = "create"
    /\ IF tries[r] < PRetries + 1
         THEN /\ tries' = [tries EXCEPT ![r] = @ + 1]
              /\ UNCHANGED <<pc, running, responses>>
         ELSE /\ Respond(r, TextResponse(r, 400, "Webhook Error: <err.message>"))
              /\ UNCHANGED tries
    /\ UNCHANGED <<eventRecord, variant, req, event, processedEvents, stripeEvents,
                   handlerCalls, sinkCalls, sinkDelivered>>
    /\ UNCHANGED <<statusReport, storeCalls, session, now, built, captureVars, table>>

SJNext ==
    \E r \in Reqs :
        \/ SJ_Verify(r)
        \/ SJ_LookupFound(r)
        \/ SJ_LookupEmpty(r)
        \/ SJ_LookupFail(r)
        \/ SJ_CreateOk(r)
        \/ SJ_CreateFail(r)

InitSJ ==
    /\ variant = "server_js"
    /\ HandlerInit
    /\ AuxInit
    /\ BuilderInit

NextSJ ==
    \/ \E r \in Reqs, body \in Bodies, kind \in HeaderKinds : Arrive(r, body, kind)
    \/ SJNext

SpecSJ == InitSJ /\ [][NextSJ]_vars

\* ============================================================== every answer
\* part_006 and part_003 under the scheduling of the runtime: a callback
\* that can run does run, every pending sink call eventually resolves or
\* rejects, and every body stream eventually delivers its bytes and ends,
\* or errors.

\* The steps of request r in part_006 ...
P6Step(r) ==
    \/ P6_CheckHeader(r)
    \/ P6_Verify(r)
    \/ P6_CheckDuplicate(r)
    \/ P6_LogEvent(r)
    \/ P6_Claim(r)
    \/ P6_Dispatch(r)
    \/ P6_SinkOk(r)
    \/ P6_SinkFail(r)

\* ... and in part_003.
P3Step(r) ==
    \/ \E n \in 1..MaxChunk : P3_Data(r, n)
    \/ P3_End(r)
    \/ P3_Error(r)
    \/ P3_CheckHeader(r)
    \/ P3_CheckBody(r)
    \/ P3_Verify(r)
    \/ P3_CheckDuplicate(r)
    \/ P3_LogEvent(r)
    \/ P3_Claim(r)
    \/ P3_Dispatch(r)
    \/ P3_SinkOk(r)
    \/ P3_SinkFail(r)

InitAnswer == InitP6 \/ InitP3

\* express.raw has buffered the body and invokes the part_006 route.
P6_Arrive(r, body, kind) ==
    /\ variant = "part_006"
    /\ Arrive(r, body, kind)

NextAnswer ==
    \/ \E r \in Reqs, body \in Bodies, kind \in HeaderKinds : P6_Arrive(r, body, kind)
    \/ P6Next
    \/ P3Next

Fairness == \A r \in Reqs : WF_vars(P6Step(r)) /\ WF_vars(P3Step(r))

SpecAnswer == InitAnswer /\ [][NextAnswer]_vars /\ Fairness

\* ============================================================ status query
\* src/unnamed/part_006, app.get('/api/webhook'), lines 99-110.
RecentCount == 5        \* stripeEvents.slice(-5)

\* stripeEvents.slice(-n): the last n records, or all of them if fewer.
SliceLast(log, n) ==
    IF Len(log) <= n THEN log ELSE SubSeq(log, Len(log) - n + 1, Len(log))

\* .map((e) => ({ id: e.event_id, type: e.type, processed_at }))
\* (the log records of the model carry no processed_at timestamp).
RecentEvents(log) ==
    [i \in DOMAIN SliceLast(log, RecentCount) |->
        [id   |-> SliceLast(log, RecentCount)[i].event_id,
         type |-> SliceLast(log, RecentCount)[i].type]]

\* The whole callback is synchronous: it reads the ledger size, the log
\* length and the last records, answers, and writes nothing.
P6_Status ==
    /\ variant = "part_006"
    /\ running = NoReq
    /\ statusReport' = [status |-> "healthy",
                        processed_events |-> Cardinality(processedEvents),
                        logged_events |-> Len(stripeEvents),
                        recent_events |-> RecentEvents(stripeEvents)]
    /\ UNCHANGED <<variant, running, req, pc, event, processedEvents, stripeEvents,
                   responses, eventRecord, handlerCalls, sinkCalls, sinkDelivered,
                   storeCalls, tableVars, session, now, built, captureVars>>

\* part_006 with its status endpoint.
NextStatus ==
    \/ \E r \in Reqs, body \in Bodies, kind \in HeaderKinds : Arrive(r, body, kind)
    \/ P6Next
    \/ P6_Status

SpecStatus == InitP6 /\ [][NextStatus]_vars

\* ================================================= part_009 storeSubscription
\* src/unnamed/part_009, storeSubscription, lines 176-263: the Airtable
\* request is wrapped in a local retry helper (224-235) and carries the
\* signal of one AbortController whose 10 s timer is set once, before the
\* first attempt (237-238).  Durations are abstracted: the timer may fire
\* at any moment while it is set, an attempt may settle at any moment.
Retries == 3            \* const retry = async (fn, retries = 3, delay = 1000)

\* One more attempt has settled with the given outcome.
Settled(call, outcome) == [call EXCEPT !.attempts = Append(@, outcome)]

\* Faulty variant: the catch never rethrows and always schedules another try.
Caught_NoCap(call, outcome) == [Settled(call, outcome) EXCEPT !.pc = "delay"]

\* catch (err) { if (i === retries - 1) throw err; await <delay> }
Caught(call, outcome) ==
    IF call.i = Retries - 1
      THEN [Settled(call, outcome) EXCEPT !.pc = "done", !.result = "threw"]
      ELSE [Settled(call, outcome) EXCEPT !.pc = "delay"]

\* storeSubscription is called: the controller and its timer are created,
\* retry starts its loop with i = 0 and issues the first fetch.
RT_Start(c) ==
    /\ storeCalls[c].pc = "idle"
    /\ \A d \in Calls : d < c => storeCalls[d].pc # "idle"
    /\ storeCalls' = [storeCalls EXCEPT ![c] =
           [NoCall EXCEPT !.pc = "fetch", !.timeoutId = TRUE]]
    /\ UNCHANGED <<handlerVars, statusReport, tableVars, session, now, built, captureVars>>

\* The fetch resolves with res.ok: retry returns it, clearTimeout,
\* storeSubscription returns the parsed data.
RT_FetchOk(c) ==
    /\ storeCalls[c].pc = "fetch" /\ ~storeCalls[c].aborted
    /\ storeCalls' = [storeCalls EXCEPT ![c] =
           [Settled(@, "ok") EXCEPT !.pc = "done", !.result = "returned",
                                    !.timeoutId = FALSE]]
    /\ UNCHANGED <<handlerVars, statusReport, tableVars, session, now, built, captureVars>>

\* The fetch resolves with a 5xx response.  A resolved fetch does not
\* throw: `return await fn()` returns the response out of the loop, then
\* clearTimeout, and `if (!res.ok)` throws (254-258).
RT_FetchNotOk(c) ==
    /\ storeCalls[c].pc = "fetch" /\ ~storeCalls[c].aborted
    /\ storeCalls' = [storeCalls EXCEPT ![c] =
           [Settled(@, "http5xx") EXCEPT !.pc = "done", !.result = "threw",
                                         !.timeoutId = FALSE]]
    /\ UNCHANGED <<handlerVars, statusReport, tableVars, session, now, built, captureVars>>

\* The fetch rejects with a network error: the helper's catch runs.
RT_FetchNetworkError(c) ==
    /\ storeCalls[c].pc = "fetch" /\ ~storeCalls[c].aborted
    /\ storeCalls' = [storeCalls EXCEPT ![c] = Caught(@, "network")]
    /\ UNCHANGED <<handlerVars, statusReport, tableVars, session, now, built, captureVars>>

\* setTimeout(() => controller.abort(), 10000) fires: the one signal shared
\* by all attempts becomes aborted, and stays so.
RT_Timeout(c) ==
    /\ storeCalls[c].pc \in {"fetch", "delay"}
    /\ storeCalls[c].timeoutId /\ ~storeCalls[c].aborted
    /\ storeCalls' = [storeCalls EXCEPT ![c] =
           [@ EXCEPT !.aborted = TRUE, !.timeoutId = FALSE]]
    /\ UNCHANGED <<handlerVars, statusReport, tableVars, session, now, built, captureVars>>

\* A fetch whose signal is aborted, while pending or already when issued,
\* rejects with an AbortError: the helper's catch runs.
RT_FetchAborted(c) ==
    /\ storeCalls[c].pc = "fetch" /\ storeCalls[c].aborted
    /\ storeCalls' = [storeCalls EXCEPT ![c] = Caught(@, "aborted")]
    /\ UNCHANGED <<handlerVars, statusReport, tableVars, session, now, built, captureVars>>

\* The delay promise resolves: i++, and fn() issues the next fetch with the
\* same controller.signal.
RT_DelayDone(c) ==
    /\ storeCalls[c].pc = "delay"
    /\ storeCalls' = [storeCalls EXCEPT ![c] =
           [@ EXCEPT !.pc = "fetch", !.i = @ + 1]]
    /\ UNCHANGED <<handlerVars, statusReport, tableVars, session, now, built, captureVars>>

InitRetry ==
    /\ variant = "part_009_airtable"
    /\ HandlerInit
    /\ AuxInit
    /\ BuilderInit

NextRetry ==
    \E c \in Calls :
        \/ RT_Start(c)
        \/ RT_FetchOk(c)
        \/ RT_FetchNotOk(c)
        \/ RT_FetchNetworkError(c)
        \/ RT_Timeout(c)
        \/ RT_FetchAborted(c)
        \/ RT_DelayDone(c)

SpecRetry == InitRetry /\ [][NextRetry]_vars

\* A pending promise of call c settles: the fetch resolves or rejects, or
\* the delay timer fires.
RT_Settle(c) ==
    \/ RT_FetchOk(c)
    \/ RT_FetchNotOk(c)
    \/ RT_FetchNetworkError(c)
    \/ RT_FetchAborted(c)
    \/ RT_DelayDone(c)

\* The same helper with every pending promise eventually settling.
SpecRetryFair == SpecRetry /\ \A c \in Calls : WF_vars(RT_Settle(c))

\* ============================================================ record builder
\* src/unnamed/part_006, processCheckoutCompleted, lines 126-170 (the same
\* builder is in part_000, lines 78-148).

\* String.prototype.toLowerCase on one word.
LowerWord(w) ==
    CASE w = "SOCIAL" -> "social"
      [] w = "Phenom_Landing" -> "phenom_landing"
      [] OTHER -> w

\* ref.toLowerCase()
ToLowerCase(ref) == [i \in DOMAIN ref |-> LowerWord(ref[i])]

\* ref.includes(keyword)
Includes(ref, keyword) == \E i \in DOMAIN ref : ref[i] = keyword

\* new Date(t).toISOString()
ToISOString(t) == <<"ISO", t>>

\* The first matching keyword, in the order of the if / else-if chain.
InferChannel(ref) ==
    CASE Includes(ref, "social") -> "social"
      [] Includes(ref, "sms") -> "sms"
      [] Includes(ref, "email") -> "email"
      [] Includes(ref, "phenom_landing") -> "phenom_landing"
      [] OTHER -> ""

\* Faulty variant: the coupon id is compared without regard to case.
HasPhenomCoupon_AnyCase(s) ==
    \E i \in DOMAIN s.discounts : s.discounts[i] \in {"PHENOM100", "phenom100"}

\* for (const discount of ...discounts) if (coupon.id === 'PHENOM100') ...
HasPhenomCoupon(s) == \E i \in DOMAIN s.discounts : s.discounts[i] = "PHENOM100"

\* Faulty variant: the price is taken from the last line item.
FirstPrice_Last(s) ==
    IF s.line_items # <<>> THEN s.line_items[Len(s.line_items)].price
    ELSE [id |-> Null, product |-> Null]

\* session.line_items?.data?.[0]?.price, with `?.id || null` and
\* `?.product || null` applied when there is no first line item.
FirstPrice(s) ==
    IF s.line_items # <<>> THEN s.line_items[1].price
    ELSE [id |-> Null, product |-> Null]

\* The record handed to storeSubscription for session s when the clock
\* reads t.
BuildRecord(s, t) ==
    [customer_id     |-> s.customer,
     subscription_id |-> s.subscription,
     session_id      |-> s.id,
     price_id        |-> FirstPrice(s).id,
     product_id      |-> FirstPrice(s).product,
     phenom_code     |-> IF HasPhenomCoupon(s) THEN "PHENOM100" ELSE "",
     phenom_partner  |-> HasPhenomCoupon(s),
     source_channel  |->
         IF s.metadata.source_channel # "" THEN s.metadata.source_channel
         ELSE IF s.client_reference_id # <<>>
                THEN InferChannel(ToLowerCase(s.client_reference_id))
                ELSE "",
     utm_source      |-> s.metadata.utm_source,
     utm_medium      |-> s.metadata.utm_medium,
     utm_campaign    |-> s.metadata.utm_campaign,
     created_at      |-> ToISOString(t),
     amount_total    |-> s.amount_total,
     currency        |-> s.currency]

\* Faulty variant: the amount is sent in major units and the currency
\* upper-cased.
SinkFields_MajorUnits(record) ==
    [CustomerID |-> record.customer_id, SubscriptionID |-> record.subscription_id,
     PriceID |-> record.price_id, ProductID |-> record.product_id,
     PhenomCode |-> record.phenom_code, PhenomPartner |-> record.phenom_partner,
     SourceChannel |-> record.source_channel, UTMSource |-> record.utm_source,
     UTMMedium |-> record.utm_medium, UTMCampaign |-> record.utm_campaign,
     Amount |-> record.amount_total \div 100,
     Currency |-> IF record.currency = "usd" THEN "USD" ELSE record.currency,
     Created |-> record.created_at]

\* part_006:176-196: the `fields` object storeSubscription posts to the sink
\* (field names without their blanks).
SinkFields(record) ==
    [CustomerID |-> record.customer_id, SubscriptionID |-> record.subscription_id,
     PriceID |-> record.price_id, ProductID |-> record.product_id,
     PhenomCode |-> record.phenom_code, PhenomPartner |-> record.phenom_partner,
     SourceChannel |-> record.source_channel, UTMSource |-> record.utm_source,
     UTMMedium |-> record.utm_medium, UTMCampaign |-> record.utm_campaign,
     Amount |-> record.amount_total,
     Currency |-> record.currency,
     Created |-> record.created_at]

\* Time passes.
Tick ==
    /\ now < MaxClock
    /\ now' = now + 1
    /\ UNCHANGED <<handlerVars, statusReport, storeCalls, tableVars, session, built, captureVars>>

\* processCheckoutCompleted(session) up to the fetch of storeSubscription:
\* the record is built from the payload and the clock and mapped to the
\* sink's fields; the payload, the ledger and the log are only read or not
\* touched at all.
P6_BuildRecord ==
    /\ variant = "part_006"
    /\ Len(built) < MaxBuilds
    /\ built' = Append(built, [payload |-> session, at |-> now,
                               record |-> BuildRecord(session, now),
                               fields |-> SinkFields(BuildRecord(session, now))])
    /\ UNCHANGED <<handlerVars, statusReport, storeCalls, tableVars, session, now, captureVars>>

InitBuild ==
    /\ variant = "part_006"
    /\ HandlerInit
    /\ AuxInit
    /\ session \in Sessions
    /\ now = 0
    /\ built = <<>>

NextBuild ==
    \/ Tick
    \/ P6_BuildRecord

SpecBuild == InitBuild /\ [][NextBuild]_vars

\* src/unnamed/part_009, handleCheckoutCompleted, lines 835-884: the
\* builder of the /webhook revision.  The reference id is searched as it
\* is (871-880: no toLowerCase).
WH_BuildMetadata(s) ==
    [stripe_customer_id     |-> s.customer,
     stripe_session_id      |-> s.id,
     stripe_subscription_id |-> s.subscription,
     amount_total           |-> s.amount_total,
     currency               |-> s.currency,
     payment_status         |-> s.payment_status,
     phenom_partner         |-> HasPhenomCoupon(s),
     phenom_code            |-> IF HasPhenomCoupon(s) THEN "PHENOM100" ELSE "",
     source_channel         |->
         IF s.metadata.source_channel # "" THEN s.metadata.source_channel
         ELSE IF s.client_reference_id # <<>>
                THEN InferChannel(s.client_reference_id)
                ELSE "",
     utm_source             |-> s.metadata.utm_source,
     utm_medium             |-> s.metadata.utm_medium,
     utm_campaign           |-> s.metadata.utm_campaign,
     utm_term               |-> s.metadata.utm_term,
     utm_content            |-> s.metadata.utm_content]

\* forwardToZapier (915-930): payload = { event_type, timestamp, ...data }
ZapierPayload(data, eventType, t) ==
    [event_type |-> eventType, timestamp |-> ToISOString(t)] @@ data

\* handleCheckoutCompleted(session) up to the axios.post of forwardToZapier.
WH_BuildRecord ==
    /\ variant = "part_009_webhook"
    /\ Len(built) < MaxBuilds
    /\ built' = Append(built, [payload |-> session, at |-> now,
                               record |-> WH_BuildMetadata(session),
                               fields |-> ZapierPayload(WH_BuildMetadata(session),
                                                        "checkout_completed", now)])
    /\ UNCHANGED <<handlerVars, statusReport, storeCalls, tableVars, session, now, captureVars>>

InitBuildWH ==
    /\ variant = "part_009_webhook"
    /\ HandlerInit
    /\ AuxInit
    /\ session \in Sessions
    /\ now = 0
    /\ built = <<>>

NextBuildWH ==
    \/ Tick
    \/ WH_BuildRecord

SpecBuildWH == InitBuildWH /\ [][NextBuildWH]_vars

\* ------------------------------------------------------ derived notions
\* Verification of request r has succeeded: the header is the signature of
\* the body and `event` holds the parsed event.
Verified(r) ==
    /\ SignatureValid(req[r].body, req[r].sig)
    /\ event[r] = ParseEvent(req[r].body)

InFlight(r) == pc[r] \notin {"idle", "done"}

\* Positions from the ledger check (or the first log write) onwards.
PipelineLabels == {"dupcheck", "log", "claim", "dispatch", "await"}

\* Request r has passed the ledger check and has not been answered yet.
PastCheck(r) ==
    CASE variant = "part_009_webhook" -> pc[r] \in {"claim", "dispatch", "await"}
      [] OTHER -> pc[r] \in {"log", "claim", "dispatch", "await"}

\* Request r holds the claim it placed and has not been answered yet.
HoldsClaim(r) ==
    \/ pc[r] \in {"dispatch", "await"}
    \/ variant = "part_009_v2" /\ pc[r] = "log"

\* The response sent to request r (r has been answered).
ResponseOf(r) == responses[CHOOSE i \in DOMAIN responses : responses[i].req = r]

IsDuplicateAck(resp) ==
    /\ resp.status = 200
    /\ resp.body.processed = FALSE
    /\ "reason" \in DOMAIN resp.body
    /\ resp.body.reason = "duplicate"

IsProcessedAck(resp) == resp.status = 200 /\ resp.body.processed = TRUE

\* Indices of the responses that ended a dispatch of event X (processed or
\* failed; acknowledgements of duplicates are not dispatches).
DispatchResults(X) ==
    {i \in DOMAIN responses :
        /\ event[responses[i].req] = X
        /\ ~IsDuplicateAck(responses[i])}

MaxOf(S) == CHOOSE m \in S : \A n \in S : n <= m

\* Processing outcome of event identifier X.
Outcome(X) ==
    IF \E r \in Reqs : event[r] = X /\ HoldsClaim(r) THEN "pending"
    ELSE IF DispatchResults(X) = {} THEN "unseen"
    ELSE IF responses[MaxOf(DispatchResults(X))].status = 200 THEN "processed"
    ELSE "failed"

\* Some dispatch of X has completed successfully (it was answered
\* processed:true).
EverProcessed(X) ==
    \E i \in DOMAIN responses :
        event[responses[i].req] = X /\ IsProcessedAck(responses[i])

\* A response was appended by this step.
Answered(r) == pc[r] # "done" /\ pc'[r] = "done"
NewResponse == responses'[Len(responses')]

StoresUnchanged ==
    UNCHANGED <<processedEvents, stripeEvents, handlerCalls, sinkCalls, sinkDelivered>>

\* ==================================================================== claims

\* C1: no ledger check, ledger claim, log append or sink call of a request
\* happens before that request's signature verification has succeeded, and
\* a request whose verification fails leaves the ledger and the log as they
\* were.
C1_VerifyBeforeAnyWrite ==
    [][\A r \in Reqs :
          pc[r] # pc'[r] =>
             /\ pc[r] \in PipelineLabels => Verified(r)
             /\ ~SignatureValid(req'[r].body, req'[r].sig) => StoresUnchanged]_vars

C1_Witness ==
    \E r, q \in Reqs :
        /\ pc[r] = "done" /\ req[r].sig # NoSig /\ req[r].body # EmptyBody
        /\ ~SignatureValid(req[r].body, req[r].sig)
        /\ r < q /\ pc[q] = "done" /\ Verified(q)
        /\ processedEvents = {event[q]}
        /\ Len(stripeEvents) = 1

\* C2: once a dispatch of X has completed successfully, every later verified
\* request carrying X is answered processed:false, reason "duplicate", and
\* no further handler or sink invocation is made for X.
C2_DuplicateAfterSuccess ==
    [][\A X \in Ids :
          EverProcessed(X) =>
             /\ handlerCalls'[X] = handlerCalls[X]
             /\ sinkCalls'[X] = sinkCalls[X]
             /\ X \in processedEvents'
             /\ \A r \in Reqs :
                   (Answered(r) /\ event[r] = X) => IsDuplicateAck(NewResponse)]_vars

C2_Witness ==
    \E X \in Ids : \E i, j, k \in DOMAIN responses :
        /\ i < j /\ j < k
        /\ event[responses[i].req] = X /\ IsProcessedAck(responses[i])
        /\ event[responses[j].req] = X /\ IsDuplicateAck(responses[j])
        /\ event[responses[k].req] = X /\ IsDuplicateAck(responses[k])
        /\ EventType(X) = "checkout.session.completed"
        /\ sinkCalls[X] = 1

\* C3: when the handler run for X fails, X's claim is released in that step,
\* X stays unclaimed while its outcome is failed, and the next verified
\* request carrying X passes the ledger check (it is not answered as a
\* duplicate) and has the handler invoked again.
C3_FailureReleasesClaim ==
    [][\A r \in Reqs :
          /\ (Answered(r) /\ pc[r] = "await" /\ NewResponse.status = 500)
                => event[r] \notin processedEvents'
          /\ (event[r] # NoEvent /\ Outcome(event[r]) = "failed")
                => /\ event[r] \notin processedEvents
                   /\ (pc[r] = "dupcheck" /\ pc'[r] # pc[r]) => pc'[r] # "done"
                   /\ (pc[r] = "dispatch" /\ pc'[r] = "await")
                         => handlerCalls'[event[r]] = handlerCalls[event[r]] + 1]_vars

C3_Witness ==
    \E r, q \in Reqs :
        /\ r < q /\ event[r] = event[q] /\ event[r] # NoEvent
        /\ pc[r] = "done" /\ ResponseOf(r).status = 500
        /\ pc[q] = "await"
        /\ handlerCalls[event[q]] = 2

\* C4: for every identifier at most one request is between the ledger check
\* and its answer: two requests never both pass the check before either has
\* claimed, so at most one handler invocation per identifier is in flight.
C4_OneDispatchInFlight ==
    \A X \in Ids :
        Cardinality({r \in Reqs : event[r] = X /\ PastCheck(r)}) <= 1

C4_Witness ==
    \E r, q \in Reqs :
        /\ r # q /\ event[r] = event[q] /\ event[r] # NoEvent
        /\ pc[r] = "await"
        /\ pc[q] = "done" /\ IsDuplicateAck(ResponseOf(q))
        /\ r < q

\* C5: when no request carrying X is in flight, X is in the ledger only if
\* the most recent dispatch of X completed successfully, and for a
\* checkout-completion event the sink delivery succeeded.
C5_NoHalfAppliedClaim ==
    \A X \in Ids :
        (X \in processedEvents /\ \A r \in Reqs : InFlight(r) => req[r].body # X)
           => /\ Outcome(X) = "processed"
              /\ EventType(X) = "checkout.session.completed"
                    => (sinkDelivered[X] = 1 /\ sinkCalls[X] >= 1)

C5_Witness ==
    \E X \in Ids :
        /\ X \in processedEvents
        /\ \A r \in Reqs : ~InFlight(r)
        /\ EventType(X) = "checkout.session.completed"
        /\ sinkCalls[X] = 2 /\ sinkDelivered[X] = 1

\* C6: the outcome of an identifier moves only unseen -> pending,
\* pending -> processed, pending -> failed and failed -> pending; processed
\* is terminal, and no handler is invoked for a processed identifier.
OutcomeSteps ==
    {<<"unseen", "pending">>, <<"pending", "processed">>,
     <<"pending", "failed">>, <<"failed", "pending">>}

HandlerFails(r) == pc[r] = "await" /\ pc'[r] # "await" /\ sinkDelivered' = sinkDelivered

\* C7: every verified request whose handler does not fail is answered 200
\* with received:true, a boolean processed and the event_id; a duplicate is
\* answered 200 with processed:false and reason "duplicate".
C7_AcknowledgementBody ==
    [][\A r \in Reqs :
          (Answered(r) /\ event[r] # NoEvent /\ ~HandlerFails(r)) =>
             /\ NewResponse.req = r
             /\ NewResponse.status = 200
             /\ NewResponse.body.received = TRUE
             /\ NewResponse.body.processed \in BOOLEAN
             /\ "event_id" \in DOMAIN NewResponse.body
             /\ NewResponse.body.event_id = event[r]
             /\ pc[r] = "dupcheck" => IsDuplicateAck(NewResponse)]_vars

\* Handler invocations made so far for X according to the answers and
\* positions of the verified requests carrying X (part_006 routes only
\* checkout.session.completed to a handler).
DispatchedRequests(X) ==
    {r \in Reqs :
        /\ Verified(r) /\ event[r] = X
        /\ EventType(X) = "checkout.session.completed"
        /\ \/ pc[r] = "await"
           \/ pc[r] = "done" /\ ~IsDuplicateAck(ResponseOf(r))}

\* C8: a request without signature header is answered 400 before
\* verification is attempted; a request whose verification fails is answered
\* 400 with a message describing the failure; no handler runs for either.
C8_SignatureFailuresAnswered400 ==
    /\ \A r \in Reqs :
          /\ (pc[r] # "idle" /\ req[r].sig = NoSig) =>
                /\ pc[r] \in {"start", "done"}
                /\ event[r] = NoEvent
                /\ pc[r] = "done" =>
                      ResponseOf(r) = TextResponse(r, 400, "No Stripe signature header found")
          /\ (pc[r] = "done" /\ req[r].sig # NoSig
                /\ ~SignatureValid(req[r].body, req[r].sig)) =>
                /\ event[r] = NoEvent
                /\ ResponseOf(r) = TextResponse(r, 400, "Webhook Error: <err.message>")
    /\ \A X \in Ids : handlerCalls[X] = Cardinality(DispatchedRequests(X))

C8_Witness ==
    \E r, q, v \in Reqs :
        /\ pc[r] = "done" /\ req[r].sig = NoSig
        /\ pc[q] = "done" /\ req[q].sig # NoSig
        /\ ~SignatureValid(req[q].body, req[q].sig)
        /\ pc[v] = "done" /\ Verified(v) /\ handlerCalls[event[v]] = 1

\* C9: when the handler fails after verification has succeeded, the request
\* is answered 500, never 200.
C9_HandlerFailureAnswered500 ==
    [][\A r \in Reqs :
          (HandlerFails(r) /\ Verified(r)) =>
             /\ Answered(r)
             /\ NewResponse.req = r
             /\ NewResponse.status = 500]_vars

C9_Witness ==
    \E r \in Reqs :
        /\ pc[r] = "done" /\ Verified(r)
        /\ ResponseOf(r).status = 500
        /\ sinkCalls[event[r]] = 1 /\ sinkDelivered[event[r]] = 0

\* Identifier and outcome stored in a log record.  Records of part_006 and
\* part_009_v2 have no outcome field; part_009_webhook stores it as `action`.
RecordId(rec) == IF "event_id" \in DOMAIN rec THEN rec.event_id ELSE rec.id

RecordOutcome(rec) ==
    IF "action" \notin DOMAIN rec THEN "none"
    ELSE CASE rec.action = "PROCESSED"         -> "processed"
           [] rec.action = "ERROR"             -> "failed"
           [] rec.action = "SKIPPED_DUPLICATE" -> "duplicate"

FailedRecords(X) ==
    {i \in DOMAIN stripeEvents :
        /\ RecordId(stripeEvents[i]) = X
        /\ RecordOutcome(stripeEvents[i]) = "failed"
        /\ "error" \in DOMAIN stripeEvents[i]}

FailedDispatches(X) ==
    {i \in DOMAIN responses :
        event[responses[i].req] = X /\ responses[i].status = 500}

\* C10: on handler failure the record of that dispatch is set to outcome
\* failed, with an error description, in the step that releases the claim:
\* in every state each failed dispatch of X has its record marked failed.
C10_FailureMarksRecordFailed ==
    \A X \in Ids : Cardinality(FailedRecords(X)) = Cardinality(FailedDispatches(X))

\* Log records of identifier X, by position.
RecordsOf(X) == {i \in DOMAIN stripeEvents : RecordId(stripeEvents[i]) = X}

DuplicateRecords(X) ==
    {i \in RecordsOf(X) : RecordOutcome(stripeEvents[i]) = "duplicate"}

DuplicateAcks(X) ==
    {i \in DOMAIN responses :
        event[responses[i].req] = X /\ IsDuplicateAck(responses[i])}

\* C11: when a verified event's identifier is already claimed, the request
\* is short-circuited, the log holds a record of outcome duplicate for it
\* (one per acknowledged duplicate), and no handler is invoked.
C11_DuplicateRecorded ==
    \A X \in Ids :
        /\ Cardinality(DuplicateRecords(X)) = Cardinality(DuplicateAcks(X))
        /\ handlerCalls[X] <= Cardinality(DispatchResults(X)) + 1

\* C12: the log is append-only: every step leaves the records already
\* logged in place and unchanged (the earlier log is a prefix of the later
\* one), and the step that releases a claim removes no record.
C12_LogAppendOnly ==
    [][/\ Len(stripeEvents') >= Len(stripeEvents)
       /\ SubSeq(stripeEvents', 1, Len(stripeEvents)) = stripeEvents
       /\ processedEvents' # processedEvents \cup processedEvents'
             => stripeEvents' = stripeEvents]_vars

C12_Witness ==
    \E r, q \in Reqs :
        /\ r < q /\ event[r] # NoEvent /\ event[q] # NoEvent /\ event[r] # event[q]
        /\ pc[r] = "done" /\ ResponseOf(r).status = 500
        /\ pc[q] = "done" /\ IsProcessedAck(ResponseOf(q))
        /\ Len(stripeEvents) = 2
        /\ stripeEvents[1].event_id = event[r]
        /\ event[r] \notin processedEvents

\* C13: the log holds exactly one record per verified event identifier,
\* also after a handler failure followed by a retry of the same event.
C13_OneRecordPerIdentifier ==
    \A X \in Ids :
        /\ Cardinality(RecordsOf(X)) <= 1
        /\ (\E r \in Reqs : event[r] = X /\ pc[r] = "done") => RecordsOf(X) # {}

\* The dispatcher of the running revision has no handler for X's type.
Unhandled(X) ==
    IF variant = "part_009_webhook"
      THEN ~WH_Handled(EventType(X))
      ELSE EventType(X) # "checkout.session.completed"

\* C15: a verified event of an unregistered type is acknowledged with 200
\* without being processed: it is logged and claimed, no handler builds a
\* record, no sink call is made, and every later request carrying the same
\* identifier is answered as a duplicate.
C15_UnhandledTypeAcknowledged ==
    \A X \in Ids :
        Unhandled(X) =>
            /\ handlerCalls[X] = 0 /\ sinkCalls[X] = 0 /\ sinkDelivered[X] = 0
            /\ \A r \in Reqs :
                  (pc[r] = "done" /\ Verified(r) /\ event[r] = X) =>
                     /\ ResponseOf(r).status = 200
                     /\ X \in processedEvents
                     /\ RecordsOf(X) # {}
                     /\ IsDuplicateAck(ResponseOf(r))
                           <=> \E q \in Reqs : q < r /\ Verified(q) /\ event[q] = X

C15_Witness ==
    \E r, q \in Reqs :
        /\ r < q /\ Verified(r) /\ Verified(q)
        /\ event[r] = event[q] /\ Unhandled(event[r])
        /\ pc[r] = "done" /\ pc[q] = "done"
        /\ IsProcessedAck(ResponseOf(r))
        /\ IsDuplicateAck(ResponseOf(q))
        /\ event[r] \in processedEvents

\* C17: every verified, non-duplicate checkout.session.completed event has
\* had a sink delivery attempt by the time its request is answered: the
\* delivery attempts of an identifier are never fewer than its dispatched
\* requests, and no request is acknowledged as processed without one.
C17_DeliveryBeforeAnswer ==
    \A X \in Ids :
        EventType(X) = "checkout.session.completed" =>
            /\ sinkCalls[X] >= Cardinality(DispatchedRequests(X))
            /\ \A r \in Reqs :
                  (pc[r] = "done" /\ Verified(r) /\ event[r] = X
                     /\ IsProcessedAck(ResponseOf(r)))
                  => sinkDelivered[X] >= 1

C17_Witness ==
    \E r \in Reqs :
        /\ pc[r] = "done" /\ Verified(r)
        /\ EventType(event[r]) = "checkout.session.completed"
        /\ IsProcessedAck(ResponseOf(r))
        /\ sinkCalls[event[r]] = 2 /\ sinkDelivered[event[r]] = 1

\* The synchronous statements of request q's handler, in any revision.
HandlerStep(q) ==
    \/ P6_CheckHeader(q) \/ P6_Verify(q) \/ P6_CheckDuplicate(q)
    \/ P6_LogEvent(q) \/ P6_Claim(q) \/ P6_Dispatch(q)
    \/ V2_CheckHeader(q) \/ V2_CheckBody(q) \/ V2_Verify(q)
    \/ V2_CheckDuplicate(q) \/ V2_Claim(q) \/ V2_LogEvent(q) \/ V2_Dispatch(q)
    \/ WH_Verify(q) \/ WH_LogEvent(q) \/ WH_CheckDuplicate(q)
    \/ WH_Claim(q) \/ WH_Dispatch(q)

\* The continuation of request q's handler after its own sink call settles.
SinkReturn(q) ==
    \/ P6_SinkOk(q) \/ P6_SinkFail(q)
    \/ V2_SinkOk(q) \/ V2_SinkFail(q)
    \/ WH_SinkOk(q) \/ WH_SinkFail(q)

Suspended(r) == pc[r] = "await"

\* C16: a request suspended in its sink delivery does not hold the event
\* loop, and no step of another request waits for it: whatever other
\* requests are suspended, the next request can arrive, the request holding
\* the event loop can take its next step (verify, ledger check, claim,
\* dispatch, answer), and a suspended request resumes on its own delivery.
C16_SuspendedRequestBlocksNobody ==
    \A q \in Reqs :
        /\ Suspended(q) => running # q
        /\ (running = q /\ InFlight(q)) => ENABLED HandlerStep(q)
        /\ (running = NoReq /\ Suspended(q)) => ENABLED SinkReturn(q)
        /\ (running = NoReq /\ pc[q] = "idle"
              /\ \A p \in Reqs : p < q => pc[p] # "idle")
           => ENABLED (\E body \in Bodies, kind \in HeaderKinds : Arrive(q, body, kind))

C16_Witness ==
    \E r, q \in Reqs :
        /\ r < q /\ Suspended(r)
        /\ Verified(r) /\ Verified(q) /\ event[r] # event[q]
        /\ pc[q] = "done" /\ IsProcessedAck(ResponseOf(q))
        /\ event[q] \in processedEvents /\ RecordsOf(event[q]) # {}
        /\ Len(responses) = 1

\* C14: an identifier leaves the ledger only in the failure step of a
\* handler run for that same identifier; a step that answers a success, a
\* duplicate, an unhandled type or a verification failure, and a status
\* query, removes nothing.
C14_OnlyFailureReleases ==
    [][\A X \in Ids :
          (X \in processedEvents /\ X \notin processedEvents') =>
             \E r \in Reqs :
                /\ event[r] = X /\ Verified(r)
                /\ HandlerFails(r) /\ Answered(r)
                /\ NewResponse.req = r /\ NewResponse.status = 500
                /\ processedEvents' = processedEvents \ {X}]_vars

C14_Witness ==
    \E r, q \in Reqs :
        /\ r # q /\ Verified(r) /\ Verified(q) /\ event[r] # event[q]
        /\ pc[r] = "done" /\ ResponseOf(r).status = 500
        /\ pc[q] = "done" /\ IsProcessedAck(ResponseOf(q))
        /\ processedEvents = {event[q]}
        /\ statusReport.status = "healthy" /\ statusReport.processed_events = 2

\* The attempt outcomes that are transient failures.
Transient == {"network", "http5xx", "aborted"}

\* C18: the retry wrapper retries a transient failure, a network error and
\* a 5xx response alike, and gives up only at the attempt cap: a call never
\* makes more than Retries attempts, a call that failed made Retries
\* attempts, and a failed first attempt is followed by a further one.
C18_TransientFailuresRetried ==
    \A c \in Calls :
        /\ Len(storeCalls[c].attempts) <= Retries
        /\ storeCalls[c].result = "threw" =>
              /\ Len(storeCalls[c].attempts) = Retries
              /\ \A k \in 1..Retries : storeCalls[c].attempts[k] \in Transient

\* An attempt of call c has been issued after the previous one timed out.
AttemptAfterTimeout(c) ==
    /\ storeCalls[c].pc = "fetch"
    /\ storeCalls[c].attempts # <<>>
    /\ storeCalls[c].attempts[Len(storeCalls[c].attempts)] = "aborted"

\* C19: every delivery attempt runs under a timeout of its own: after an
\* attempt has timed out, the next attempt is issued with a live signal and
\* a set timer and can still succeed; a call whose last attempt timed out
\* fails only at the attempt cap.
C19_FreshTimeoutPerAttempt ==
    \A c \in Calls :
        /\ AttemptAfterTimeout(c) =>
              /\ ~storeCalls[c].aborted
              /\ storeCalls[c].timeoutId
              /\ ENABLED RT_FetchOk(c)
        /\ (storeCalls[c].result = "threw"
              /\ storeCalls[c].attempts[Len(storeCalls[c].attempts)] = "aborted")
           => Len(storeCalls[c].attempts) = Retries

\* A run of the builder completes in this step.
Builds == Len(built') = Len(built) + 1

\* C20: the builder is deterministic and pure: a run on a payload yields a
\* record equal in every field to the record of every earlier run on the
\* same payload, whatever the time of either run, and changes neither the
\* ledger, nor the log, nor the payload.
C20_BuilderDeterministicAndPure ==
    [][Builds =>
          /\ \A k \in DOMAIN built :
                built[k].payload = session
                   => built'[Len(built')].record = built[k].record
          /\ UNCHANGED <<processedEvents, stripeEvents, session>>]_vars

\* C21: the builder sets phenom_partner and phenom_code exactly when some
\* discount's coupon id is, character for character, the partner code
\* PHENOM100; otherwise the flag stays false and the code empty.
C21_PartnerCouponExactMatch ==
    \A k \in DOMAIN built :
        IF \E i \in DOMAIN built[k].payload.discounts :
               built[k].payload.discounts[i] = "PHENOM100"
          THEN built[k].record.phenom_partner = TRUE
               /\ built[k].record.phenom_code = "PHENOM100"
          ELSE built[k].record.phenom_partner = FALSE
               /\ built[k].record.phenom_code = ""

C21_Witness ==
    \E k \in DOMAIN built :
        /\ built[k].payload.discounts = <<"WELCOME10", "PHENOM100">>
        /\ built[k].record.phenom_partner = TRUE
        /\ built[k].record.phenom_code = "PHENOM100"

\* The attribution keywords, in priority order.
ChannelKeywords == <<"social", "sms", "email", "phenom_landing">>

\* The positions in ChannelKeywords of the keywords that the lower-cased
\* reference id contains.
KeywordsIn(ref) ==
    {n \in DOMAIN ChannelKeywords :
        \E i \in DOMAIN ref : LowerWord(ref[i]) = ChannelKeywords[n]}

\* C22: a metadata source_channel is used unchanged; without one, the
\* reference id is lower-cased and the first keyword, in the order social,
\* sms, email, phenom_landing, that it contains is the source channel; no
\* match, or no reference id, leaves the source channel empty.
C22_SourceChannelAttribution ==
    \A k \in DOMAIN built :
        LET s == built[k].payload
            found == KeywordsIn(s.client_reference_id)
        IN  built[k].record.source_channel =
                IF s.metadata.source_channel # "" THEN s.metadata.source_channel
                ELSE IF found = {} THEN ""
                ELSE ChannelKeywords[CHOOSE n \in found : \A m \in found : n <= m]

\* C23: amount and currency are the payload's amount_total and currency,
\* copied as they are (minor units, no case change), in the built record
\* and in the fields sent to the sink.
C23_AmountAndCurrencyVerbatim ==
    \A k \in DOMAIN built :
        /\ built[k].record.amount_total = built[k].payload.amount_total
        /\ built[k].record.currency = built[k].payload.currency
        /\ built[k].fields.Amount = built[k].payload.amount_total
        /\ built[k].fields.Currency = built[k].payload.currency

C23_Witness ==
    \E k \in DOMAIN built :
        /\ built[k].payload.amount_total = 2000 /\ built[k].payload.currency = "usd"
        /\ built[k].payload.discounts = <<>>
        /\ built[k].fields.Amount = 2000 /\ built[k].fields.Currency = "usd"
        /\ built[k].record.phenom_partner = FALSE

\* C24: price_id and product_id are those of the first line item when there
\* is one; without line items both are null and the record is still built.
C24_FirstLineItemOrNull ==
    \A k \in DOMAIN built :
        LET items == built[k].payload.line_items
        IN  IF items = <<>>
              THEN built[k].record.price_id = Null
                   /\ built[k].record.product_id = Null
              ELSE built[k].record.price_id = items[1].price.id
                   /\ built[k].record.product_id = items[1].price.product

C24_Witness ==
    \E k \in DOMAIN built :
        /\ Len(built[k].payload.line_items) = 2
        /\ built[k].record.price_id = "price_B"
        /\ built[k].record.product_id = "prod_B"

\* GET /api/webhook is answered in this step (with a report that differs
\* from the previous one).
StatusAnswered == statusReport' # statusReport

\* The body stream of r fails in this step / has failed.
StreamFails(r) == stream[r].state = "open" /\ stream'[r].state = "errored"
StreamFailed(r) == stream[r].state = "errored"

\* C25: a request whose body stream errors before its end (a read error, or
\* the connection closing short of the declared length) is answered 400 by
\* the step that reports the error, which changes neither ledger, log,
\* handler nor sink counters and hands nothing to the verifier; afterwards
\* the request stays answered, unverified, and gets no second response.
C25_StreamErrorAnswered400 ==
    [][\A r \in Reqs :
          /\ StreamFails(r) =>
                /\ Answered(r)
                /\ NewResponse.req = r
                /\ NewResponse.status = 400
                /\ StoresUnchanged
                /\ UNCHANGED <<event, verifierInput>>
          /\ StreamFailed(r) =>
                /\ StreamFailed(r)'
                /\ pc'[r] = "done"
                /\ event'[r] = NoEvent
                /\ verifierInput'[r] = Unset
                /\ Len(responses') > Len(responses) => NewResponse.req # r]_vars

\* A correctly signed request whose stream failed after part of the body
\* had arrived, answered 400.
C25_Witness ==
    \E r \in Reqs :
        /\ StreamFailed(r)
        /\ SignatureValid(req[r].body, req[r].sig)
        /\ stream[r].data # <<>>
        /\ Len(stream[r].data) < Len(wire[r])
        /\ pc[r] = "done"
        /\ ResponseOf(r).status = 400
        /\ verifierInput[r] = Unset

\* C26: whenever bytes have been handed to the signature verifier they are
\* the request body exactly as received: every byte, in arrival order,
\* after the end of the stream where the body is read in chunks, and with
\* no decoding, parsing or re-serialisation having changed them.
C26_VerifierGetsBodyAsReceived ==
    \A r \in Reqs :
        verifierInput[r] # Unset =>
            /\ verifierInput[r] = wire[r]
            /\ stream[r].state \in {"none", "ended"}

\* C27: the status endpoint reports the number of claimed identifiers, the
\* number of logged records and the last min(5, log length) records in
\* append order, each with identifier, type and outcome, and changes
\* neither the ledger nor the log.
C27_StatusReport ==
    [][StatusAnswered =>
          LET n == IF Len(stripeEvents) < RecentCount
                     THEN Len(stripeEvents) ELSE RecentCount
          IN  /\ statusReport'.processed_events = Cardinality(processedEvents)
              /\ statusReport'.logged_events = Len(stripeEvents)
              /\ Len(statusReport'.recent_events) = n
              /\ \A i \in 1..n :
                    /\ statusReport'.recent_events[i].id
                          = RecordId(stripeEvents[Len(stripeEvents) - n + i])
                    /\ statusReport'.recent_events[i].type
                          = stripeEvents[Len(stripeEvents) - n + i].type
                    /\ "outcome" \in DOMAIN statusReport'.recent_events[i]
              /\ UNCHANGED <<processedEvents, stripeEvents>>]_vars

\* C28: a verified event is never mutated: once assigned, the handler's
\* event stays as it is through building and delivery, and the raw payload
\* of every log record is, and stays, the verified event it was logged for.
C28_VerifiedEventImmutable ==
    [][/\ \A r \in Reqs : event[r] # NoEvent => event'[r] = event[r]
       /\ \A i \in DOMAIN stripeEvents :
             /\ stripeEvents'[i].raw_payload = stripeEvents[i].raw_payload
             /\ \E r \in Reqs :
                   Verified(r) /\ stripeEvents[i].raw_payload = event[r]
       /\ \A i \in DOMAIN stripeEvents' :
             \E r \in Reqs : Verified(r)' /\ stripeEvents'[i].raw_payload = event'[r]]_vars

C28_Witness ==
    \E r \in Reqs :
        /\ pc[r] = "done" /\ Verified(r)
        /\ EventType(event[r]) = "checkout.session.completed"
        /\ sinkDelivered[event[r]] = 1
        /\ \E i \in DOMAIN stripeEvents : stripeEvents[i].raw_payload = event[r]

\* C29: for an accepted event the record is appended first, the identifier
\* claimed second, and the handler invoked after both: the step that
\* claims an identifier finds its record at the end of the log, and the
\* step that invokes a handler finds the identifier logged and claimed.
C29_LogThenClaimThenHandler ==
    [][\A X \in Ids :
          /\ (X \notin processedEvents /\ X \in processedEvents') =>
                /\ stripeEvents # <<>>
                /\ RecordId(stripeEvents[Len(stripeEvents)]) = X
          /\ handlerCalls'[X] > handlerCalls[X] =>
                /\ X \in processedEvents
                /\ RecordsOf(X) # {}]_vars

\* C30: in part_007 and part_008 a failed sink delivery leaves
\* processCheckoutCompleted as a handler failure: the request whose
\* delivery failed is answered 500, not 200 { received: true }.
C30_SinkFailureReachesRoute ==
    [][\A r \in Reqs :
          (HandlerFails(r) /\ Answered(r)) =>
             /\ NewResponse.req = r
             /\ NewResponse.status # 200
             /\ NewResponse.status = 500]_vars

\* The request has passed signature verification.
VerificationSucceeded(r) == event[r] # NoEvent

\* C31: in the table-lookup handler a 400 is the answer to a missing or
\* invalid signature only: no request whose verification succeeded is
\* answered 400, whatever happens to its duplicate lookup or its record
\* creation afterwards.
C31_BadRequestOnlyForSignature ==
    [][\A r \in Reqs :
          (Answered(r) /\ NewResponse.req = r /\ NewResponse.status = 400) =>
              ~VerificationSucceeded(r)]_vars

\* C32: in the table-lookup handler the sink table never holds more than
\* one record of a session, under any interleaving of the requests that
\* carry it.
C32_OneRecordPerSession ==
    \A X \in Ids : table[X] <= 1

\* No request carrying X is between its arrival and its response.
Quiescent(X) == \A r \in Reqs : InFlight(r) => ParseEvent(req[r].body) # X

\* Some request for X was answered 200 (processed or duplicate).
Acknowledged(X) ==
    \E i \in DOMAIN responses :
        event[responses[i].req] = X /\ responses[i].status = 200

\* C33: once every request for X has completed, an acknowledgement (200,
\* processed or duplicate) of any of them means that X is claimed in the
\* ledger and, for a handled type, that a handler run for X delivered:
\* no duplicate acknowledgement outlives the failure and release of the
\* only processing attempt.
C33_AcknowledgedMeansProcessed ==
    \A X \in Ids :
        (Quiescent(X) /\ Acknowledged(X)) =>
            /\ isClaimed(X)
            /\ EventType(X) = "checkout.session.completed" => sinkDelivered[X] >= 1

\* C34: over any sequence and interleaving of requests (duplicates,
\* failures, provider retries) at most one sink delivery completes
\* successfully for one event identifier.
C34_AtMostOneDelivery ==
    \A X \in Ids : sinkDelivered[X] <= 1

\* An event was delivered once although a first attempt had failed and
\* three requests carried it (one failed, one delivered, one duplicate).
C34_Witness ==
    \E X \in Ids :
        /\ sinkDelivered[X] = 1
        /\ sinkCalls[X] >= 2
        /\ \A r \in Reqs : pc[r] = "done" /\ event[r] = X

\* X leaves the ledger in this step.
Released(X) == X \in processedEvents /\ X \notin processedEvents'

\* Request q owns a claim on X: it placed one and is still in flight, or it
\* completed as processed.
OwnsClaim(q, X) ==
    /\ event[q] = X
    /\ \/ HoldsClaim(q)
       \/ pc[q] = "done" /\ IsProcessedAck(ResponseOf(q))

\* C35: a step that releases X is the failure of the request that placed
\* the claim on X, and no other request, in flight or completed, owns a
\* claim on X at that moment.
C35_ReleaseOnlyOwnClaim ==
    [][\A X \in Ids :
          Released(X) =>
             \E r \in Reqs :
                /\ Answered(r)
                /\ event[r] = X
                /\ HoldsClaim(r)
                /\ NewResponse.req = r /\ NewResponse.status = 500
                /\ \A q \in Reqs \ {r} : ~OwnsClaim(q, X)]_vars

\* A request failed and released its claim while another request for the
\* same event, answered as duplicate, had completed.
C35_Witness ==
    \E r, q \in Reqs :
        /\ r # q /\ event[r] = event[q] /\ event[r] # NoEvent
        /\ pc[r] = "done" /\ ResponseOf(r).status = 500
        /\ pc[q] = "done" /\ IsDuplicateAck(ResponseOf(q))
        /\ ~isClaimed(event[r])

\* C36: every identifier in the ledger has at least one record in the event
\* log, so the ledger never holds more identifiers than the log holds
\* records, and the status endpoint never reports more processed than
\* logged events.
C36_ClaimedImpliesLogged ==
    /\ \A X \in processedEvents : RecordsOf(X) # {}
    /\ Cardinality(processedEvents) <= Len(stripeEvents)
    /\ statusReport.status = "healthy" =>
          statusReport.processed_events <= statusReport.logged_events

\* The status endpoint reported a ledger with one identifier claimed and a
\* log with more records than that (a failed event was released, its record
\* stayed).
C36_Witness ==
    /\ statusReport.status = "healthy"
    /\ statusReport.processed_events >= 1
    /\ statusReport.processed_events < statusReport.logged_events
    /\ processedEvents # {}

\* The log records of identifier Y, in log order.
LogOf(log, Y) == SelectSeq(log, LAMBDA rec : RecordId(rec) = Y)

\* Request r takes a step.
Steps(r) == pc'[r] # pc[r]

\* C37: a step of a request for identifier X, whatever its outcome
\* (processed, duplicate, failed or rejected), leaves the ledger membership
\* and the log records of every other identifier Y as they were.
C37_OtherIdentifiersUntouched ==
    [][\A r \in Reqs :
          Steps(r) =>
             \A Y \in Ids \ {event'[r]} :
                /\ isClaimed(Y) <=> (Y \in processedEvents')
                /\ LogOf(stripeEvents', Y) = LogOf(stripeEvents, Y)]_vars

\* A request for X failed and was released while a request for another
\* identifier Y, which arrived earlier, still holds Y's claim and record.
C37_Witness ==
    \E r, q \in Reqs :
        /\ q < r
        /\ event[r] # NoEvent /\ event[q] # NoEvent /\ event[r] # event[q]
        /\ pc[r] = "done" /\ ResponseOf(r).status = 500
        /\ pc[q] = "await"
        /\ isClaimed(event[q]) /\ ~isClaimed(event[r])
        /\ LogOf(stripeEvents, event[q]) # <<>>

\* The responses sent to request r.
ResponsesTo(r) == {i \in DOMAIN responses : responses[i].req = r}

\* C38: every request is answered exactly once, with 200, 400 or 500: a
\* completed request has one response, an uncompleted one has none, and,
\* every sink call eventually returning or throwing, every request that
\* has arrived is eventually completed.
C38_AnsweredExactlyOnce ==
    /\ [](\A r \in Reqs :
            /\ Cardinality(ResponsesTo(r)) = IF pc[r] = "done" THEN 1 ELSE 0
            /\ \A i \in ResponsesTo(r) : responses[i].status \in {200, 400, 500})
    /\ \A r \in Reqs : (pc[r] # "idle") ~> (pc[r] = "done")

\* Every request has arrived and been answered, one with each status.
C38_Witness ==
    /\ \A r \in Reqs : pc[r] = "done" /\ Cardinality(ResponsesTo(r)) = 1
    /\ \A code \in {200, 400, 500} :
          \E i \in DOMAIN responses : responses[i].status = code

\* An invocation of fn that threw (its promise rejected).
Threw(outcome) == outcome \in {"network", "aborted"}

\* C39: retry(fn, retries, delay) invokes fn at most `retries` times, makes
\* no invocation after one that did not throw, ends with the result of that
\* invocation or, when all `retries` invocations threw, with the error of
\* the last one, and always terminates.
C39_RetryBoundedAndTerminates ==
    /\ [](\A c \in Calls :
            LET a == storeCalls[c].attempts IN
            /\ Len(a) <= Retries
            /\ \A k \in 1..(Len(a) - 1) : Threw(a[k])
            /\ storeCalls[c].pc = "done" =>
                  /\ a # <<>>
                  /\ Threw(a[Len(a)]) =>
                        Len(a) = Retries /\ storeCalls[c].result = "threw"
                  /\ a[Len(a)] = "ok" => storeCalls[c].result = "returned")
    /\ \A c \in Calls : (storeCalls[c].pc # "idle") ~> (storeCalls[c].pc = "done")

\* One call returned on its last permitted invocation after the earlier
\* ones threw; another call rethrew after all its invocations threw.
C39_Witness ==
    \E c, d \in Calls :
        /\ storeCalls[c].pc = "done" /\ storeCalls[c].result = "returned"
        /\ Len(storeCalls[c].attempts) = Retries
        /\ storeCalls[c].attempts[Retries] = "ok"
        /\ storeCalls[d].pc = "done" /\ storeCalls[d].result = "threw"
        /\ Len(storeCalls[d].attempts) = Retries
        /\ \A k \in 1..Retries : Threw(storeCalls[d].attempts[k])

====
